---- MODULE Spec2Model ----
(***************************************************************************)
(* Model of the light-state engine of mqtt-dali-controller: the            *)
(* configuration store (present addresses, groups), the Lights model       *)
(* (levels, group levels, force refresh, power state, RTC copy) and the    *)
(* Dali transmit thread (run_tasks).                                       *)
(*                                                                         *)
(* Every Lights/Config operation runs under the object's mutex and is one  *)
(* action.  Dali::run_tasks is split at the calls it makes into Lights     *)
(* (get_state and the completed_ hooks): each step starts with one such  *)
(* call and then runs the thread-local code up to the next one.            *)
(***************************************************************************)
EXTENDS Integers, Sequences, FiniteSets, TLC

(***************************************************************************)
(* Program constants                                                       *)
(***************************************************************************)
MAX_ADDR == 63
MAX_GROUP == 15
MAX_LEVEL == 254
LEVEL_NO_CHANGE == 255
MAX_GROUPS == 16
FORCE_REFRESH_COUNT == 2
IDLE_S == 10
GROUP_NONE == 255
GROUP_ADDRESS == 64
DATA_POWER_LEVEL == 0
DATA_COMMAND == 1
BROADCAST_ADDRESS == 127
COMMAND_STORE_ACTUAL_LEVEL_IN_DTR == 33
COMMAND_SET_SYSTEM_FAILURE_LEVEL_FROM_DTR == 44
COMMAND_SET_POWER_ON_LEVEL_FROM_DTR == 45
COMMAND_ADD_TO_GROUP == 96
COMMAND_REMOVE_FROM_GROUP == 112

num_addresses == MAX_ADDR + 1
num_groups == MAX_GROUP + 1
Addr == 0 .. MAX_ADDR
Group == 0 .. MAX_GROUP

NUM_SWITCHES == 5
MAX_QUEUED_MESSAGES == 1000
SEND_QUEUE_DIVISOR == 10
BUFFER_SIZE == 512
RTC_MAGIC == 219358635
BUILTIN_GROUP_ALL == "all"
BUILTIN_GROUP_IDLE == "idle"
BUILTIN_PRESET_OFF == "off"
RESERVED_PRESET_CUSTOM == "custom"
RESERVED_PRESET_UNKNOWN == "unknown"

(***************************************************************************)
(* Bounds of the model                                                     *)
(***************************************************************************)
\* number of Lights/Config operations in one behaviour
MaxOps == 2
\* number of transmits that may fail in one behaviour
MaxTxFail == 1
\* the transmits of one step of the thread that may fail are among the first
MaxStepTx == 4
\* passes counted after an operation
MaxPassNo == 4
\* the clock stops advancing here (seconds)
MaxNow == 10
\* every iteration order of the groups is followed up to this many groups
MaxOrdered == 3
\* a light spec has up to this many items
MaxItems == 2
\* messages published by the callers of Network::publish
MaxPublish == 3
\* passes of Network::loop
MaxLoops == 3
\* T/startup_complete messages received
MaxPings == 3
\* changes of a switch
MaxSwitch == 3

(***************************************************************************)
(* Inputs the operations are driven with                                   *)
(***************************************************************************)
GroupNames == {"kitchen", "hall"}

\* the names of a configuration with as many groups as there are group ids
FullNames ==
    << "kitchen", "hall", "g02", "g03", "g04", "g05", "g06", "g07", "g08", "g09",
       "g10", "g11", "g12", "g13", "g14", "g15" >>

\* a light-spec item: all, idle, a name, or a decimal range N-M (N alone: M = N)
ItAll == [k |-> "name", name |-> BUILTIN_GROUP_ALL, b |-> 0, e |-> 0]
ItIdle == [k |-> "name", name |-> BUILTIN_GROUP_IDLE, b |-> 0, e |-> 0]
ItName(n) == [k |-> "name", name |-> n, b |-> 0, e |-> 0]
ItNum(n) == [k |-> "range", name |-> "", b |-> n, e |-> n]
ItRange(n, m) == [k |-> "range", name |-> "", b |-> n, e |-> m]
\* an item that did not parse
ItNone == [k |-> "none", name |-> "", b |-> 0, e |-> 0]

LightIds ==
    { <<ItAll>>, <<ItName("kitchen")>>, <<ItNum(5)>>, <<ItIdle, ItName("hall")>> }

\* a preset name as received: text, or a decimal index into the preset order
PName(t) == [numeric |-> FALSE, idx |-> 0, text |-> t]
PIndex(i) == [numeric |-> TRUE, idx |-> i, text |-> ""]

\* select_preset(name, light_ids, internal)
SelectPresetArgs ==
    { << PName("evening"), <<ItAll>>, FALSE >>,
      << PIndex(3), <<ItName("kitchen")>>, TRUE >>,
      << PName("evening"), <<ItIdle, ItName("hall")>>, FALSE >> }

\* set_level(light_ids, level)
SetLevelArgs ==
    { << <<ItName("kitchen")>>, 120 >>, << <<ItNum(5)>>, 100 >>,
      << <<ItIdle, ItName("hall")>>, 120 >>, << <<ItAll>>, 255 >> }

\* dim_adjust(mode, groups, level): the binding of a dimmer and the change
DimAdjustArgs ==
    { << "GROUP", <<"kitchen">>, 20 >>,
      << "GROUP", <<"kitchen", "hall">>, 20 >>, << "GROUP", <<BUILTIN_GROUP_ALL>>, -20 >>,
      << "INDIVIDUAL", <<"hall">>, 20 >>, << "INDIVIDUAL", <<"kitchen">>, 300 >> }

\* set_power(get_group_addresses(group), on): the group of a switch
SwitchGroups == { "kitchen" }

\* payloads of T/addresses and T/group/<name>: the hex pairs, as byte values
AddressesPayloads == { <<5, 6>>, <<10, 200>> }
GroupPayloads == { <<>>, <<6, 10>> }
GroupTopics == GroupNames

\* the presets and the preset order of the configuration
NoChangeLevels == [a \in Addr |-> LEVEL_NO_CHANGE]
ConfigPresets ==
    [n \in {"evening"} |->
        [a \in Addr |-> CASE a \in {0, 5} -> 200 [] a \in {1, 6} -> 150
                          [] a \in {2, 11} -> 100
                          [] OTHER -> LEVEL_NO_CHANGE]]
ConfigOrdered == << "evening", "off" >>

(***************************************************************************)
(* State                                                                   *)
(***************************************************************************)
VARIABLES
    \* Config::current_
    current_lights, groups_by_name, groups_by_id, presets, ordered,
    \* the configuration file: whether it exists, and the ConfigData in it
    saved_config,
    \* what a reader finds in the file and in the backup file, the ConfigData
    \* in the backup file
    file_form, backup_config,
    \* observation: the ConfigData of the last save that succeeded
    config_saved,
    \* Config::dirty_, saved_, last_saved_; Config::save_config: its position
    \* and its local save_data
    dirty_, saved_, last_saved_, save_pc, save_data,
    \* Network: wifi_up_ && mqtt_.connected(), the queue and its counters
    mqtt_connected, message_queue_, dropped_messages_, oversized_messages_,
    maximum_queue_size_,
    \* API::startup_complete_
    startup_complete_,
    \* observation: the messages written so far, what the last Network::loop
    \* published to the broker, the passes of Network::loop, the times it
    \* connected, and since the
    \* last connect the T/startup_complete messages received and the
    \* configuration echoes they caused
    publish_no, mqtt_sent, loops, connects, pings, echoes,
    \* Switches: state_[i].active, using_rtc_state_, and of each Debounce
    \* whether it has yet to report its first value
    switch_active, using_rtc_state_, debounce_first,
    \* RTC memory: the saved switch states, and whether rtc_crc_ matches them
    switch_rtc_states_, switch_rtc_crc_ok,
    \* observation: what the last run_switch that saw a change was called
    \* with and what it called, and the number of such calls
    switch_call, switch_no,
    \* Lights
    levels_, group_levels_, broadcast_level_, group_level_addresses_,
    group_sync_, force_refresh_, force_refresh_count_,
    broadcast_power_on_level_, broadcast_system_failure_level_,
    power_on_, power_known_, active_presets_, last_activity_us_, boot_rtc_,
    \* RTC memory: the saved levels, and whether rtc_crc_ matches them
    rtc_levels_, rtc_crc_ok,
    \* esp_timer_get_time(), in seconds
    now,
    \* Dali
    tx_levels_, tx_group_levels_, next_address_, next_group_,
    \* Dali::run_tasks: position, loop index, and its locals
    pc, loop_i, state, changed, refresh, count,
    \* observation: the frames of the current pass and of the last step, what
    \* each light last received from the bus, the transmits that failed
    pass_frames, step_frames, bus_level, tx_fail,
    \* observation: the frames whose transmit failed and that were not sent
    \* later in the pass, of the current pass and of the pass before it
    pass_failed, last_failed,
    \* observation: the successive values of each level, the position in them of
    \* the value each light last received, and the lights that received a value
    \* that is not at or after that position
    level_log, bus_pos, bus_disorder,
    \* observation: flipped by every step of the Dali thread
    turn,
    \* observation: the last operation, the number of operations, and the
    \* passes started since the last operation
    last_op, ops, pass_no,
    \* RotaryEncoder: signal_, count_, first_, start_us_, change_, mode_
    encoder,
    \* observation: the time, the edges taken and the last four of them, the
    \* sum of what read() returned, the cycles the edges made
    enc_obs,
    \* Config::current_.dimmers[0]: encoder_steps and level_steps
    dimmers,
    \* Dimmers::state_[0].encoder_steps
    dimmer_state_,
    \* observation: the calls of run_dimmer, the sum of what they read, the sum
    \* of the steps they passed on and the last level change they passed on
    dim_obs,
    \* the mutexes each thread holds, in the order it locked them, and the
    \* locks, unlocks and file accesses left of the call each thread is in
    held_, steps_

configVars == << current_lights, groups_by_name, groups_by_id, presets, ordered >>
fileVars == << saved_config, file_form, backup_config, config_saved >>
netVars == << mqtt_connected, message_queue_, dropped_messages_, oversized_messages_,
              maximum_queue_size_, startup_complete_, publish_no, mqtt_sent, loops,
              connects, pings, echoes >>
encVars == << encoder, enc_obs >>
dimVars == << dimmers, dimmer_state_, dim_obs >>
lockVars == << held_, steps_ >>
inputVars == << encVars, dimVars, lockVars >>
switchOnly == << switch_active, using_rtc_state_, debounce_first, switch_rtc_states_,
                 switch_rtc_crc_ok, switch_call, switch_no >>
switchVars == << switchOnly, inputVars >>
saveRest == << saved_, last_saved_, save_pc, save_data >>
saveVars == << dirty_, saveRest >>
ioVars == << fileVars, netVars, switchVars, saveVars >>
lightVars == << levels_, group_levels_, broadcast_level_, group_level_addresses_,
                group_sync_, force_refresh_, force_refresh_count_,
                broadcast_power_on_level_, broadcast_system_failure_level_,
                power_on_, power_known_, active_presets_, last_activity_us_,
                boot_rtc_ >>
rtcVars == << rtc_levels_, rtc_crc_ok >>
daliVars == << tx_levels_, tx_group_levels_, next_address_, next_group_,
               pc, loop_i, state, changed, refresh, count >>
busVars == << pass_frames, step_frames, bus_level, tx_fail, pass_failed,
              last_failed, bus_pos, bus_disorder, turn >>
opVars == << last_op, ops, pass_no >>
logVars == << level_log >>
vars == << configVars, fileVars, netVars, switchVars, saveVars, lightVars, rtcVars,
          now, daliVars, busVars, opVars, logVars >>

(***************************************************************************)
(* Helpers                                                                 *)
(***************************************************************************)
Min(a, b) == IF a < b THEN a ELSE b
Max(a, b) == IF a > b THEN a ELSE b

RECURSIVE SumLevels(_, _)
SumLevels(lv, S) ==
    IF S = {} THEN 0
    ELSE LET a == CHOOSE x \in S : TRUE IN lv[a] + SumLevels(lv, S \ {a})

Range(s) == { s[i] : i \in DOMAIN s }

\* an operation: its name, the addresses it wrote, the addresses it named, the
\* addresses it removed from the configuration, and where the thread was
\* what a call of select_preset or set_level was made with, the preset it
\* resolved, and the report select_preset sent for it; the groups, the mode
\* and the change a call of dim_adjust was made with; what a call of
\* set_group_addresses returned
NoCall == [idle_only |-> FALSE, internal |-> FALSE, found |-> FALSE, preset |-> "",
           report |-> <<>>, groups |-> {}, all |-> FALSE, delta |-> 0,
           changed |-> FALSE]
Call(idle_only, internal, found, preset, report) ==
    [NoCall EXCEPT !.idle_only = idle_only, !.internal = internal, !.found = found,
                   !.preset = preset, !.report = report]
DimCall(dc, level) ==
    [NoCall EXCEPT !.groups = dc.groups, !.all = dc.all, !.delta = level]
GroupResult(result) == [NoCall EXCEPT !.changed = result]

NoOp == [name |-> "none", written |-> {}, lights |-> {}, removed |-> {}, pc |-> "sleep",
         call |-> NoCall]
Op(n, w, l, r) == [name |-> n, written |-> w, lights |-> l, removed |-> r, pc |-> pc,
                   call |-> NoCall]
OpCall(n, w, l, call) == [Op(n, w, l, {}) EXCEPT !.call = call]

(***************************************************************************)
(* Config                                                                  *)
(***************************************************************************)
\* names made only of the characters the validators accept
WellFormedNames ==
    GroupNames \cup {"nosuch", "evening", "all", "idle", "off", "sync", "porch"}
        \cup Range(FullNames)

valid_group_name(name, use) ==
    /\ ~(name = BUILTIN_GROUP_ALL /\ ~use)
    /\ name \notin {BUILTIN_GROUP_IDLE, "delete", "levels", "sync", ""}
    /\ name \in WellFormedNames

\* the hex pairs of a payload that name an address
ParseAddresses(payload) == { payload[i] : i \in DOMAIN payload } \cap Addr

Perms(S) == { s \in [1 .. Cardinality(S) -> S] : Range(s) = S }

\* one order of the names S
RECURSIVE SeqOf(_)
SeqOf(S) ==
    IF S = {} THEN <<>>
    ELSE LET n == CHOOSE x \in S : TRUE IN << n >> \o SeqOf(S \ {n})

\* the iteration orders of an unordered_map with the keys S that are followed:
\* all of them for a few keys, one of them for more
Orders(S) == IF Cardinality(S) <= MaxOrdered THEN Perms(S) ELSE { SeqOf(S) }

NoGroups == [g \in Group |-> {}]

AssignKeep_none(gbn, order, taken, byid) ==
    [gbn |-> [n \in DOMAIN gbn |-> [gbn[n] EXCEPT !.id = GROUP_NONE]],
     taken |-> taken, byid |-> byid]

\* first loop of assign_group_ids, over the groups in iteration order
RECURSIVE AssignKeep(_, _, _, _)
AssignKeep(gbn, order, taken, byid) ==
    IF order = <<>> THEN [gbn |-> gbn, taken |-> taken, byid |-> byid]
    ELSE LET n == Head(order)
             id == gbn[n].id
         IN IF id = GROUP_NONE
            THEN AssignKeep(gbn, Tail(order), taken, byid)
            ELSE IF id >= num_groups \/ id \in taken
            THEN AssignKeep([gbn EXCEPT ![n].id = GROUP_NONE], Tail(order), taken, byid)
            ELSE AssignKeep(gbn, Tail(order), taken \cup {id},
                            [byid EXCEPT ![id] = gbn[n].addresses])

AssignFree_none(gbn, order, taken, byid) == [gbn |-> gbn, taken |-> taken, byid |-> byid]

\* second loop of assign_group_ids: the lowest free id for each group without one
RECURSIVE AssignFree(_, _, _, _)
AssignFree(gbn, order, taken, byid) ==
    IF order = <<>> THEN [gbn |-> gbn, taken |-> taken, byid |-> byid]
    ELSE LET n == Head(order)
             free == Group \ taken
         IN IF gbn[n].id # GROUP_NONE \/ free = {}
            THEN AssignFree(gbn, Tail(order), taken, byid)
            ELSE LET i == CHOOSE x \in free : \A y \in free : x <= y
                 IN AssignFree([gbn EXCEPT ![n].id = i], Tail(order), taken \cup {i},
                               [byid EXCEPT ![i] = gbn[n].addresses])

assign_group_ids(gbn, order) ==
    LET k == AssignKeep(gbn, order, {}, NoGroups)
    IN AssignFree(k.gbn, order, k.taken, k.byid)

get_group_addresses_name(name) ==
    IF name = BUILTIN_GROUP_ALL THEN current_lights
    ELSE IF name \in DOMAIN groups_by_name THEN groups_by_name[name].addresses
    ELSE {}

get_group_addresses(g) == IF g \in Group THEN groups_by_id[g] ELSE {}

\* Config::set_addresses(group, addresses); order is the iteration order of
\* the unordered_map when ids are assigned
set_addresses(group, payload, order) ==
    LET lights == ParseAddresses(payload) IN
    IF group = BUILTIN_GROUP_ALL
    THEN /\ current_lights' = lights
         /\ dirty_' = TRUE
         /\ UNCHANGED << groups_by_name, groups_by_id >>
    ELSE IF group \notin DOMAIN groups_by_name
    THEN IF Cardinality(DOMAIN groups_by_name) >= MAX_GROUPS
         THEN UNCHANGED << current_lights, groups_by_name, groups_by_id, dirty_ >>
         ELSE LET added == [n \in DOMAIN groups_by_name \cup {group} |->
                               IF n = group THEN [id |-> GROUP_NONE, addresses |-> lights]
                               ELSE groups_by_name[n]]
                  r == assign_group_ids(added, order)
              IN /\ groups_by_name' = r.gbn
                 /\ groups_by_id' = r.byid
                 /\ dirty_' = TRUE
                 /\ UNCHANGED current_lights
    ELSE /\ groups_by_name' = [groups_by_name EXCEPT ![group].addresses = lights]
         /\ groups_by_id' = IF groups_by_name[group].id < num_groups
                            THEN [groups_by_id EXCEPT ![groups_by_name[group].id] = lights]
                            ELSE groups_by_id
         /\ dirty_' = TRUE
         /\ UNCHANGED current_lights

\* what set_addresses returns: before != after, unless the group could not
\* be created
set_addresses_changed(group, payload) ==
    IF /\ group # BUILTIN_GROUP_ALL
       /\ group \notin DOMAIN groups_by_name
       /\ Cardinality(DOMAIN groups_by_name) >= MAX_GROUPS
    THEN FALSE
    ELSE get_group_addresses_name(group) # ParseAddresses(payload)

\* what set_group_addresses returns
set_group_addresses_changed(name, payload) ==
    valid_group_name(name, FALSE) /\ set_addresses_changed(name, payload)

set_group_addresses(name, payload, order) ==
    IF ~valid_group_name(name, FALSE)
    THEN UNCHANGED << current_lights, groups_by_name, groups_by_id, dirty_ >>
    ELSE set_addresses(name, payload, order)

delete_group(name) ==
    IF name \notin DOMAIN groups_by_name
    THEN UNCHANGED << current_lights, groups_by_name, groups_by_id, dirty_ >>
    ELSE /\ groups_by_id' = IF groups_by_name[name].id < num_groups
                            THEN [groups_by_id EXCEPT ![groups_by_name[name].id] = {}]
                            ELSE groups_by_id
         /\ groups_by_name' = [n \in DOMAIN groups_by_name \ {name} |-> groups_by_name[n]]
         /\ dirty_' = TRUE
         /\ UNCHANGED current_lights

get_preset_nochange(name) == [found |-> TRUE, levels |-> NoChangeLevels]

get_preset(name) ==
    IF name = BUILTIN_PRESET_OFF THEN [found |-> TRUE, levels |-> [a \in Addr |-> 0]]
    ELSE IF name \in DOMAIN presets THEN [found |-> TRUE, levels |-> presets[name]]
    ELSE [found |-> FALSE, levels |-> NoChangeLevels]

get_ordered_preset(idx) ==
    IF ordered = <<>> THEN [found |-> FALSE, name |-> ""]
    ELSE [found |-> TRUE, name |-> ordered[(idx % Len(ordered)) + 1]]

\* one item of a light spec
LightItem(item) ==
    IF item.k = "none" THEN {}
    ELSE IF item.k = "name"
    THEN IF item.name = BUILTIN_GROUP_ALL THEN Addr
         ELSE IF item.name \in DOMAIN groups_by_name
         THEN groups_by_name[item.name].addresses
         ELSE {}
    ELSE IF item.b > item.e \/ item.b >= num_addresses \/ item.e >= num_addresses
    THEN {}
    ELSE item.b .. item.e

parse_light_ids(light_ids) ==
    [lights |-> UNION { LightItem(light_ids[i]) :
                          i \in { j \in DOMAIN light_ids :
                                    ~(light_ids[j].k = "name"
                                      /\ light_ids[j].name = BUILTIN_GROUP_IDLE) } },
     idle_only |-> \E i \in DOMAIN light_ids :
                      light_ids[i].k = "name" /\ light_ids[i].name = BUILTIN_GROUP_IDLE]

\* Text as the characters it is made of.  How the names the model uses are
\* spelt:
Spelling ==
    [n \in {BUILTIN_GROUP_ALL, BUILTIN_GROUP_IDLE, "kitchen", "hall"} |->
        CASE n = BUILTIN_GROUP_ALL -> << "a", "l", "l" >>
          [] n = BUILTIN_GROUP_IDLE -> << "i", "d", "l", "e" >>
          [] n = "kitchen" -> << "k", "i", "t", "c", "h", "e", "n" >>
          [] n = "hall" -> << "h", "a", "l", "l" >>]

DigitChars == << "0", "1", "2", "3", "4", "5", "6", "7", "8", "9" >>
IsDigit(c) == c \in Range(DigitChars)
DigitValue(c) == (CHOOSE i \in DOMAIN DigitChars : DigitChars[i] = c) - 1

\* the index of the first c in text, 0 for none (std::string::find)
Find(text, c) ==
    IF \E i \in DOMAIN text : text[i] = c
    THEN CHOOSE i \in DOMAIN text : text[i] = c /\ \A j \in 1 .. i - 1 : text[j] # c
    ELSE 0

\* std::getline(input, item, ','): the items of a text.  A text that ends
\* after a comma has no item after it.
RECURSIVE GetLines(_)
GetLines(text) ==
    IF text = << >> THEN << >>
    ELSE LET i == Find(text, ",")
         IN IF i = 0 THEN << text >>
            ELSE << SubSeq(text, 1, i - 1) >> \o GetLines(SubSeq(text, i + 1, Len(text)))

\* the digits text starts with, as a number
RECURSIVE Digits(_, _)
Digits(text, acc) ==
    IF text = << >> \/ ~IsDigit(Head(text)) THEN [value |-> acc, rest |-> text]
    ELSE Digits(Tail(text), 10 * acc + DigitValue(Head(text)))

RECURSIVE SkipSpace(_)
SkipSpace(text) ==
    IF text # << >> /\ Head(text) = " " THEN SkipSpace(Tail(text)) ELSE text

\* strtoul(text, &endptr, 10): white space, a sign, digits.  Without a digit
\* nothing is converted: the value is 0 and endptr is the start of the text.
\* A number after '-' is negated as unsigned long: 2^32 - n is above every
\* number the texts of the model hold, and the greatest integer stands for it
\* (the texts have fewer digits than an unsigned long holds: no ERANGE).
strtoul(text) ==
    LET s == SkipSpace(text)
        neg == s # << >> /\ Head(s) = "-"
        t == IF s # << >> /\ Head(s) \in {"+", "-"} THEN Tail(s) ELSE s
        d == Digits(t, 0)
    IN IF d.rest = t THEN [value |-> 0, rest |-> text]
       ELSE [value |-> IF neg /\ d.value # 0 THEN 2147483647 ELSE d.value,
             rest |-> d.rest]

\* util.cpp ulong_from_string: a leading '+' is skipped before strtoul, and
\* the text is a number when strtoul stops at its end
ulong_from_string(text) ==
    IF text = << >> THEN [ok |-> FALSE, value |-> 0]
    ELSE LET r == strtoul(IF Head(text) = "+" THEN Tail(text) ELSE text)
         IN [ok |-> r.rest = << >>, value |-> r.value]

\* one item of the text of a light spec, as parse_light_ids reads it
ParseItem(item) ==
    LET dash_idx == Find(item, "-") IN
    IF item = Spelling[BUILTIN_GROUP_ALL] THEN ItAll
    ELSE IF item = Spelling[BUILTIN_GROUP_IDLE] THEN ItIdle
    ELSE IF \E n \in DOMAIN groups_by_name : n \in DOMAIN Spelling /\ Spelling[n] = item
    THEN ItName(CHOOSE n \in DOMAIN groups_by_name :
                    n \in DOMAIN Spelling /\ Spelling[n] = item)
    ELSE IF dash_idx = 0
    THEN LET begin == ulong_from_string(item)
         IN IF begin.ok THEN ItNum(begin.value) ELSE ItNone
    ELSE LET begin == ulong_from_string(SubSeq(item, 1, dash_idx - 1))
             end == ulong_from_string(SubSeq(item, dash_idx + 1, Len(item)))
         IN IF begin.ok /\ end.ok THEN ItRange(begin.value, end.value) ELSE ItNone

\* the items of the text of a light spec
LightItems(text) ==
    LET items == GetLines(text) IN [i \in DOMAIN items |-> ParseItem(items[i])]

InvalidDimmer ==
    [mode |-> "INDIVIDUAL", addresses |-> {}, groups |-> {},
     address_group |-> [a \in Addr |-> 0], group_addresses |-> NoGroups,
     all |-> FALSE]

\* the loop of Config::make_dimmer over the group names, from item i on
RECURSIVE MakeDimmerFrom(_, _, _)
MakeDimmerFrom(d, groups, i) ==
    IF i > Len(groups) THEN d
    ELSE LET group == groups[i] IN
         IF group = BUILTIN_GROUP_ALL
         THEN IF d.groups # {} THEN InvalidDimmer
              ELSE MakeDimmerFrom([d EXCEPT !.all = TRUE, !.addresses = current_lights],
                                  groups, i + 1)
         ELSE IF d.all THEN InvalidDimmer
         ELSE IF group \notin DOMAIN groups_by_name THEN MakeDimmerFrom(d, groups, i + 1)
         ELSE IF groups_by_name[group].id >= num_groups THEN MakeDimmerFrom(d, groups, i + 1)
         ELSE LET id == groups_by_name[group].id
                  members == current_lights \cap groups_by_name[group].addresses
              IN \* an address is in a group selected before it: invalid.  The
                 \* addresses below the first such one were already entered,
                 \* but the result is discarded
                 IF \E a \in members : d.address_group[a] # GROUP_NONE
                 THEN InvalidDimmer
                 ELSE MakeDimmerFrom(
                        [d EXCEPT !.groups = @ \cup {id},
                                  !.addresses = @ \cup members,
                                  !.group_addresses[id] = @ \cup members,
                                  !.address_group = [a \in Addr |->
                                        IF a \in members THEN id ELSE @[a]]],
                        groups, i + 1)

make_dimmer(mode, groups) ==
    MakeDimmerFrom([mode |-> mode, addresses |-> {}, groups |-> {},
                    address_group |-> [a \in Addr |-> GROUP_NONE],
                    group_addresses |-> NoGroups, all |-> FALSE],
                   groups, 1)

\* Config::make_dimmer(mode, text): the comma-separated names that are valid
make_dimmer_text(mode, groups) ==
    LET usable(n) == valid_group_name(n, TRUE)
    IN make_dimmer(mode, SelectSeq(groups, usable))

(***************************************************************************)
(* Lights                                                                  *)
(***************************************************************************)
is_idle_always == TRUE

is_idle == now - last_activity_us_ >= IDLE_S

\* a 32-bit word as the set of the positions of its bits that are 1
BitsOf(n) == { j \in 0 .. 30 : (n \div 2 ^ j) % 2 = 1 }
Xor(A, B) == { j \in 0 .. 31 : (j \in A) # (j \in B) }
Not32(A) == { j \in 0 .. 31 : j \notin A }

\* the polynomial 0xEDB88320 of esp_crc32_le
CRC32_LE_POLY == {31, 30, 29, 27, 26, 24, 23, 21, 20, 19, 15, 9, 8, 5}

\* n bits of the CRC: shift right, and subtract the polynomial if a 1 fell
\* off (r = r has r evaluated before the next bit is taken)
RECURSIVE CrcShift(_, _)
CrcShift(c, n) ==
    IF n = 0 THEN c
    ELSE LET s == { i - 1 : i \in c \ {0} }
             r == IF 0 \in c THEN Xor(s, CRC32_LE_POLY) ELSE s
         IN IF r = r THEN CrcShift(r, n - 1) ELSE {}

\* the bytes k .. len - 1 of the words, in memory order, taken half by half
RECURSIVE CrcBytes(_, _, _, _)
CrcBytes(c, words, k, len) ==
    IF k = len THEN c
    ELSE IF k + 1 = len
    THEN CrcShift(Xor(c, BitsOf(words[k \div 4][k % 4])), 8)
    ELSE LET mid == (k + len) \div 2
             half == CrcBytes(c, words, k, mid)
         IN IF half = half THEN CrcBytes(half, words, mid, len) ELSE {}

\* esp_crc32_le(crc, buf, len) over the words
esp_crc32_le(crc, words, len) == Not32(CrcBytes(Not32(crc), words, 0, len))

rtc_crc_short(words) == Xor(esp_crc32_le({}, words, 4), BitsOf(RTC_MAGIC))

\* Lights::rtc_crc
rtc_crc(words) ==
    Xor(esp_crc32_le({}, words, 4 * ((num_addresses + 3) \div 4)), BitsOf(RTC_MAGIC))

\* the 16 words of RTC memory, each as its four bytes in memory order:
\* level i is shifted to byte i % 4 of word i / 4
PackLevels(lv) ==
    [w \in 0 .. (num_addresses + 3) \div 4 - 1 |->
        [b \in 0 .. 3 |-> lv[4 * w + b] % 256]]

UnpackLevels(words) ==
    [i \in Addr |-> words[i \div 4][i % 4]]

save_rtc_state(lv) ==
    /\ rtc_levels_' = PackLevels(lv)
    /\ rtc_crc_ok' = TRUE

\* clear_group_levels that forgets the group levels of the groups it breaks up
clear_group_levels_keep(lights) ==
    [group_levels |-> group_levels_,
     group_level_addresses |-> group_level_addresses_ \ lights]

\* the group levels and the group level addresses after clear_group_levels(lights)
clear_group_levels(lights) ==
    LET hit == { g \in Group : /\ group_levels_[g] # LEVEL_NO_CHANGE
                               /\ lights \cap get_group_addresses(g) # {} }
        clear_lights == lights \cup UNION { get_group_addresses(g) : g \in hit }
    IN [group_levels |-> [g \in Group |-> IF g \in hit THEN LEVEL_NO_CHANGE
                                          ELSE group_levels_[g]],
        group_level_addresses |-> group_level_addresses_ \ clear_lights]

lightsRest == << broadcast_level_, group_sync_, force_refresh_, force_refresh_count_,
                 broadcast_power_on_level_, broadcast_system_failure_level_,
                 power_on_, power_known_, boot_rtc_ >>

activity_always(idle_only) == now

activity_never(idle_only) == last_activity_us_

\* select_preset: the time of the last activity after a call that is applied
activity(idle_only) == IF ~idle_only THEN now ELSE last_activity_us_

\* what set_power writes, what select_preset writes, and the rest of Lights
powerVars == << force_refresh_, force_refresh_count_, power_on_, power_known_ >>
presetVars == << levels_, group_levels_, group_level_addresses_, active_presets_,
                last_activity_us_ >>
lightsFixed == << broadcast_level_, group_sync_, broadcast_power_on_level_,
                 broadcast_system_failure_level_, boot_rtc_ >>

\* Lights::select_preset, in a step that does Power to what set_power writes
select_preset_and(parg, light_ids, internal, Power) ==
    LET addresses == current_lights
        p == parse_light_ids(light_ids)
        lights == p.lights
        ord == get_ordered_preset(parg.idx)
        name == IF parg.numeric THEN ord.name ELSE parg.text
        preset == get_preset(name)
    IN IF \/ (~parg.numeric /\ parg.text = "")
          \/ (parg.numeric /\ ~ord.found)
          \/ ~preset.found
       THEN /\ UNCHANGED << presetVars, lightsFixed, rtcVars >> /\ Power
            /\ last_op' = OpCall("select_preset_ignored", {}, lights,
                                 Call(p.idle_only, internal, FALSE, "", <<>>))
       ELSE IF ~internal /\ p.idle_only /\ ~is_idle
       THEN /\ UNCHANGED << presetVars, lightsFixed, rtcVars >> /\ Power
            /\ last_op' = OpCall("select_preset_ignored", {}, lights,
                                 Call(p.idle_only, internal, TRUE, name,
                                      << name, " (ignored - not idle)" >>))
       ELSE LET cleared == clear_group_levels(lights)
                written == { i \in Addr : /\ i \in addresses
                                          /\ preset.levels[i] # LEVEL_NO_CHANGE
                                          /\ i \in lights }
                new_levels == [i \in Addr |-> IF i \in written THEN preset.levels[i]
                                              ELSE levels_[i]]
            IN /\ levels_' = new_levels
               /\ active_presets_' =
                     [i \in Addr |-> IF i \in written THEN name
                                     ELSE IF i \notin addresses THEN ""
                                     ELSE active_presets_[i]]
               /\ group_levels_' = cleared.group_levels
               /\ group_level_addresses_' = cleared.group_level_addresses
               /\ last_activity_us_' = activity(p.idle_only)
               /\ IF written # {} THEN save_rtc_state(new_levels)
                                  ELSE UNCHANGED rtcVars
               /\ UNCHANGED lightsFixed /\ Power
               /\ last_op' = OpCall("select_preset", written, lights,
                                    Call(p.idle_only, internal, TRUE, name,
                                         IF written # {} /\ ~internal
                                         THEN << name, IF p.idle_only THEN " (idle only)"
                                                       ELSE "" >>
                                         ELSE <<>>))

select_preset(parg, light_ids, internal) ==
    select_preset_and(parg, light_ids, internal, UNCHANGED powerVars)

set_level(light_ids, level) ==
    LET addresses == current_lights
        p == parse_light_ids(light_ids)
        lights == p.lights
    IN IF level < 0 \/ level > MAX_LEVEL \/ (p.idle_only /\ ~is_idle)
       THEN /\ UNCHANGED << lightVars, rtcVars >>
            /\ last_op' = OpCall("set_level_ignored", {}, lights,
                                 Call(p.idle_only, FALSE, FALSE, "", <<>>))
       ELSE LET cleared == clear_group_levels(lights)
                written == addresses \cap lights
                new_levels == [i \in Addr |-> IF i \in written THEN level ELSE levels_[i]]
            IN /\ levels_' = new_levels
               /\ active_presets_' =
                     [i \in Addr |-> IF i \in written THEN RESERVED_PRESET_CUSTOM
                                     ELSE active_presets_[i]]
               /\ group_levels_' = cleared.group_levels
               /\ group_level_addresses_' = cleared.group_level_addresses
               /\ last_activity_us_' = now
               /\ IF written # {} THEN save_rtc_state(new_levels)
                                  ELSE UNCHANGED rtcVars
               /\ UNCHANGED lightsRest
               /\ last_op' = OpCall("set_level", written, lights,
                                    Call(p.idle_only, FALSE, FALSE, "", <<>>))

\* Lights::set_power: what it writes
set_power_state(lights, on) ==
    /\ power_known_' = power_known_ \cup lights
    /\ IF on
       THEN /\ force_refresh_count_' =
                  [i \in Addr |-> IF i \in lights /\ i \notin power_on_
                                  THEN FORCE_REFRESH_COUNT ELSE force_refresh_count_[i]]
            /\ force_refresh_' = force_refresh_ \cup (lights \ power_on_)
            /\ power_on_' = power_on_ \cup lights
       ELSE /\ IF power_on_ \cap lights # {}
               THEN /\ force_refresh_count_' =
                          [i \in Addr |-> IF i \in lights THEN 0
                                          ELSE force_refresh_count_[i]]
                    /\ force_refresh_' = force_refresh_ \ lights
               ELSE UNCHANGED << force_refresh_count_, force_refresh_ >>
            /\ power_on_' = power_on_ \ lights

set_power(lights, on) ==
    /\ set_power_state(lights, on)
    /\ UNCHANGED << levels_, group_levels_, broadcast_level_, group_level_addresses_,
                    group_sync_, broadcast_power_on_level_,
                    broadcast_system_failure_level_, active_presets_,
                    last_activity_us_, boot_rtc_, rtcVars >>
    /\ last_op' = Op(IF on THEN "set_power_on" ELSE "set_power_off",
                     IF on THEN lights \ power_on_ ELSE {}, lights, {})

Clamp_none(x) == x

Clamp(x) == Max(0, Min(MAX_LEVEL, x))

\* the mean of the levels of S that are set: rounded down when dimming up,
\* rounded up when dimming down
MeanLevel(S, level) ==
    LET n == Cardinality(S)
        sum == SumLevels(levels_, S)
    IN IF level >= 0 THEN sum \div n ELSE (sum + (n - 1)) \div n

\* Lights::dim_adjust(DimmerConfig, level); changed0 is what the local
\* `changed` holds when nothing assigns it (it has no initialiser)
dim_adjust(dc, level, changed0) ==
    IF level < -MAX_LEVEL \/ level > MAX_LEVEL
    THEN /\ UNCHANGED << lightVars, rtcVars >>
         /\ last_op' = OpCall("dim_adjust_ignored", {}, dc.addresses, DimCall(dc, level))
    ELSE
    LET is_group == dc.mode = "GROUP"
        set_of(S) == { a \in S : levels_[a] # LEVEL_NO_CHANGE }
        all_known == set_of(dc.addresses)
        new_broadcast == IF all_known # {}
                         THEN Clamp(MeanLevel(all_known, level) + level) ELSE 0
        members(g) == { a \in Addr : dc.address_group[a] = g }
        counted == { g \in dc.groups : set_of(members(g)) # {} }
        group_level == [g \in Group |->
                           IF g \in counted
                           THEN Clamp(MeanLevel(set_of(members(g)), level) + level)
                           ELSE 0]
        cleared == clear_group_levels(dc.addresses)
        touched == IF is_group THEN dc.addresses ELSE set_of(dc.addresses)
        new_levels ==
            [i \in Addr |->
                IF i \notin touched THEN levels_[i]
                ELSE IF is_group
                THEN (IF dc.all THEN new_broadcast ELSE group_level[dc.address_group[i]])
                ELSE Clamp(levels_[i] + level)]
        assigned == \/ touched # {}
                    \/ is_group /\ dc.all /\ all_known # {}
                    \/ is_group /\ ~dc.all /\ counted # {}
        is_changed == IF assigned THEN TRUE ELSE changed0
    IN /\ broadcast_level_' = IF is_group /\ dc.all /\ all_known # {}
                              THEN new_broadcast ELSE broadcast_level_
       /\ group_levels_' =
             IF is_group
             THEN (IF dc.all THEN group_levels_
                   ELSE [g \in Group |-> IF g \in counted THEN group_level[g]
                                         ELSE group_levels_[g]])
             ELSE cleared.group_levels
       /\ group_level_addresses_' =
             IF is_group
             THEN (IF dc.all
                   THEN (IF all_known # {} THEN group_level_addresses_ \cup dc.addresses
                         ELSE group_level_addresses_)
                   ELSE group_level_addresses_
                          \cup UNION { dc.group_addresses[g] : g \in counted })
             ELSE cleared.group_level_addresses
       /\ levels_' = new_levels
       /\ active_presets_' = [i \in Addr |-> IF i \in touched THEN RESERVED_PRESET_CUSTOM
                                             ELSE active_presets_[i]]
       /\ last_activity_us_' = now
       /\ IF is_changed THEN save_rtc_state(new_levels) ELSE UNCHANGED rtcVars
       /\ UNCHANGED << group_sync_, force_refresh_, force_refresh_count_,
                       broadcast_power_on_level_, broadcast_system_failure_level_,
                       power_on_, power_known_, boot_rtc_ >>
       /\ last_op' = OpCall(IF is_group THEN "dim_adjust_group"
                                         ELSE "dim_adjust_individual",
                            touched, dc.addresses, DimCall(dc, level))

\* Lights::address_config_changed(), after a reload of the configuration
address_config_changed(addresses) ==
    group_level_addresses_' = group_level_addresses_ \cap addresses

(***************************************************************************)
(* Construction                                                            *)
(***************************************************************************)
\* configurations read from the configuration file at boot
BootConfigs ==
    { [lights |-> {5, 6, 10},
       groups |-> [n \in {"kitchen", "hall"} |->
                      IF n = "kitchen" THEN [id |-> 0, addresses |-> {5, 6}]
                      ELSE [id |-> GROUP_NONE, addresses |-> {6, 10}]]],
      [lights |-> {5, 6},
       groups |-> [n \in {"kitchen"} |-> [id |-> 3, addresses |-> {5, 6}]]] }

\* the configuration of a switch for the group of the lights 10 and 11
SwitchConfigs ==
    { [lights |-> {10, 11},
       groups |-> [n \in {"hall"} |-> [id |-> 0, addresses |-> {10, 11}]]] }

\* the configuration of scenario S1: the lights 0, 1 and 2
S1Configs ==
    { [lights |-> {0, 1, 2},
       groups |-> [n \in {"hall"} |-> [id |-> 0, addresses |-> {0, 1}]]] }

\* configuration files for the groups: two groups with the same id and one
\* with none, and sixteen groups of which two have the same id
GroupConfigs ==
    { [lights |-> {5, 6, 10},
       groups |-> [n \in {"kitchen", "hall", "porch"} |->
                      IF n = "porch" THEN [id |-> GROUP_NONE, addresses |-> {10}]
                      ELSE [id |-> 3, addresses |-> {5, 6}]]],
      [lights |-> {5, 6, 10},
       groups |-> [n \in Range(FullNames) |->
                      LET i == CHOOSE k \in DOMAIN FullNames : FullNames[k] = n
                      IN [id |-> IF i = Len(FullNames) THEN i - 2 ELSE i - 1,
                          addresses |-> IF i = 1 THEN {5, 6} ELSE {6, 10}]]] }

ConfigData(lights, gbn, byid) ==
    [exists |-> TRUE, lights |-> lights, groups_by_name |-> gbn, groups_by_id |-> byid]

\* Lights::get_state()
get_state ==
    [addresses |-> current_lights,
     group_addresses |-> groups_by_id,
     levels |-> levels_,
     group_levels |-> group_levels_,
     group_level_addresses |-> group_level_addresses_,
     broadcast_level |-> broadcast_level_,
     group_sync |-> group_sync_,
     force_refresh |-> force_refresh_,
     broadcast_power_on_level |-> broadcast_power_on_level_,
     broadcast_system_failure_level |-> broadcast_system_failure_level_]

EmptyState ==
    [addresses |-> {}, group_addresses |-> NoGroups, levels |-> NoChangeLevels,
     group_levels |-> [g \in Group |-> LEVEL_NO_CHANGE], group_level_addresses |-> {},
     broadcast_level |-> LEVEL_NO_CHANGE, group_sync |-> {}, force_refresh |-> {},
     broadcast_power_on_level |-> FALSE, broadcast_system_failure_level |-> FALSE]

\* Lights::Lights, with levels the levels that setup() leaves
InitLights(lv, status) ==
    /\ levels_ = lv
    /\ group_levels_ = [g \in Group |-> LEVEL_NO_CHANGE]
    /\ broadcast_level_ = LEVEL_NO_CHANGE
    /\ group_level_addresses_ = {}
    /\ group_sync_ = {}
    /\ force_refresh_ = {}
    /\ force_refresh_count_ = [a \in Addr |-> 0]
    /\ broadcast_power_on_level_ = FALSE
    /\ broadcast_system_failure_level_ = FALSE
    /\ power_on_ = {}
    /\ power_known_ = {}
    /\ active_presets_ = [a \in Addr |-> RESERVED_PRESET_UNKNOWN]
    /\ last_activity_us_ = 0
    /\ boot_rtc_ = status

\* Dali::Dali
InitDali ==
    /\ tx_levels_ = NoChangeLevels
    /\ tx_group_levels_ = [g \in Group |-> LEVEL_NO_CHANGE]
    /\ next_address_ = 0
    /\ next_group_ = 0
    /\ pc = "sleep"
    /\ loop_i = 0
    /\ state = EmptyState
    /\ changed = FALSE
    /\ refresh = TRUE
    /\ count = 0

(***************************************************************************)
(* Network                                                                 *)
(***************************************************************************)
\* a queued message: its topic, and as observation the number of the
\* Network::publish call that wrote it
Message(topic, retain, no) ==
    [topic |-> topic, payload |-> << >>, retain |-> retain, no |-> no]
\* what send_queued_messages publishes of a counter
Stats(name, n) ==
    [topic |-> << "stats", name >>, payload |-> << n >>, retain |-> FALSE, no |-> 0]

\* Message::write: whether the topic, its terminator and the payload fit
message_write(topic_len, payload_len) == topic_len + 1 + payload_len <= BUFFER_SIZE

\* Network::publish of a message that fits: the queue after it
publish_keep(queue, message) == Append(queue, message)
publish(queue, message) ==
    IF Len(queue) >= MAX_QUEUED_MESSAGES
    THEN Append(SubSeq(queue, Len(queue) - MAX_QUEUED_MESSAGES + 2, Len(queue)), message)
    ELSE Append(queue, message)

\* successive calls of Network::publish with these topics
RECURSIVE publish_all(_, _, _, _)
publish_all(queue, topics, retain, no) ==
    IF topics = << >> THEN queue
    ELSE publish_all(publish(queue, Message(Head(topics), retain, no + 1)),
                     Tail(topics), retain, no + 1)

PublishAll(topics, retain) ==
    /\ message_queue_' = publish_all(message_queue_, topics, retain, publish_no)
    /\ maximum_queue_size_' = Max(maximum_queue_size_, Len(message_queue_'))
    /\ publish_no' = publish_no + Len(topics)

\* Config::publish_config: the topics it publishes, all of them retained, the
\* groups in this order
publish_config(order) ==
    << << "addresses" >> >> \o [i \in DOMAIN order |-> << "group", order[i] >>]
        \o << << "preset", "order" >> >>

\* API::connected: the topics it publishes
connected_topics == << << "announce" >>, << "startup_complete" >> >>

\* Network::send_queued_messages while connected: what it takes from a queue
send_count(queue) == Min(Len(queue), Len(queue) \div SEND_QUEUE_DIVISOR + 1)

\* the queue holds this many messages, all of them written before the start
Queued(n) == [i \in 1 .. n |-> Message(<< "report" >>, FALSE, i - n)]

InitNetwork(n) ==
    /\ mqtt_connected = FALSE
    /\ message_queue_ = Queued(n)
    /\ dropped_messages_ = 0
    /\ oversized_messages_ = 0
    /\ maximum_queue_size_ = n
    /\ startup_complete_ = FALSE
    /\ publish_no = 0
    /\ mqtt_sent = << >>
    /\ loops = 0
    /\ connects = 0
    /\ pings = 0
    /\ echoes = 0

InitObservers ==
    /\ last_op = NoOp
    /\ pass_frames = <<>>
    /\ step_frames = <<>>
    /\ bus_level = NoChangeLevels
    /\ tx_fail = 0
    /\ pass_failed = <<>>
    /\ last_failed = <<>>
    /\ level_log = [a \in Addr |-> << levels_[a] >>]
    /\ bus_pos = [a \in Addr |-> 0]
    /\ bus_disorder = {}
    /\ turn = FALSE
    /\ ops = 0
    /\ pass_no = 0

\* the configuration as loaded from the file, ids assigned by the reader
InitConfig(c, order) ==
    LET r == assign_group_ids(c.groups, order)
    IN /\ current_lights = c.lights
       /\ groups_by_name = r.gbn
       /\ groups_by_id = r.byid
       /\ presets = ConfigPresets
       /\ ordered = ConfigOrdered
       /\ saved_config = ConfigData(c.lights, r.gbn, r.byid)
       /\ file_form = [primary |-> "valid", backup |-> "valid"]
       /\ backup_config = ConfigData(c.lights, r.gbn, r.byid)
       /\ config_saved = ConfigData(c.lights, r.gbn, r.byid)
       /\ dirty_ = FALSE
       /\ saved_ = TRUE
       /\ last_saved_ = ConfigData(c.lights, r.gbn, r.byid)
       /\ save_pc = "idle"
       /\ save_data = ConfigData(c.lights, r.gbn, r.byid)

\* what RTC memory holds at boot: nothing that matches its CRC, or the levels
\* the previous run saved last
SavedLevels ==
    [a \in Addr |-> CASE a = 5 -> 100 [] a = 6 -> 120 [] a = 10 -> 180 [] a = 11 -> 180
                      [] OTHER -> LEVEL_NO_CHANGE]
RtcContents ==
    { [words |-> PackLevels([a \in Addr |-> 0]), crc_ok |-> FALSE],
      [words |-> PackLevels(SavedLevels), crc_ok |-> TRUE] }

\* Lights::load_rtc_state: the levels and the status it leaves
load_rtc_state(power_on, words, crc_ok) ==
    IF power_on THEN [levels |-> NoChangeLevels, status |-> "POWER_ON_IGNORED"]
    ELSE IF crc_ok THEN [levels |-> UnpackLevels(words), status |-> "LOADED_OK"]
    ELSE [levels |-> NoChangeLevels, status |-> "CHECKSUM_MISMATCH"]

(***************************************************************************)
(* Switches                                                                *)
(***************************************************************************)
Switch == 0 .. NUM_SWITCHES - 1

\* Config::current_.switches: switch 0 is bound to a group and a preset, switch
\* 1 to a group, the others are not bound
ConfigSwitches ==
    [i \in Switch |-> CASE i = 0 -> [group |-> "kitchen", preset |-> "evening"]
                         [] i = 1 -> [group |-> "hall", preset |-> ""]
                         [] OTHER -> [group |-> "", preset |-> ""]]
get_switch_group(switch_id) ==
    IF switch_id < NUM_SWITCHES THEN ConfigSwitches[switch_id].group ELSE ""
get_switch_preset(switch_id) ==
    IF switch_id < NUM_SWITCHES THEN ConfigSwitches[switch_id].preset ELSE ""

\* SwitchState(): a switch is active until its value is known
DefaultActive == [i \in Switch |-> TRUE]

\* Switches::load_rtc_state
switches_load_rtc_state(power_on, states, crc_ok) ==
    IF ~power_on /\ crc_ok THEN [active |-> states, using |-> TRUE]
    ELSE [active |-> DefaultActive, using |-> FALSE]

\* Debounce::run and Debounce::first, which debounce.cpp defines, as
\* Switches::run_switch and Buttons::run_button use them: a change is reported
\* for the first stable value of the line, during which first() is true, and
\* for every later stable value that differs from the one before
debounce_changed(first, before, value) == first \/ value # before

NoSwitchCall == [switch |-> NUM_SWITCHES, first |-> FALSE, value |-> FALSE]

\* RotarySignal as constructed, and its active()
NewSignal == [active_low |-> TRUE, level |-> TRUE, active_us |-> 0]
signal_active(signal) == signal.level # signal.active_low

\* RotaryEncoder as constructed
NewEncoder ==
    [signal_ |-> [p \in {0, 1} |-> NewSignal], count_ |-> 0, first_ |-> 0,
     start_us_ |-> 0, change_ |-> 0, mode_ |-> 0]
\* the threads: API::receive and the loops of the main task, Dali::run_tasks,
\* Switches::run_tasks, Dimmers::run_tasks, Config::loop
Threads == { "broker", "scheduler", "input", "dimmer", "save" }

NoReads == [n |-> 0, delta_total |-> 0, steps_total |-> 0, level_change |-> 0]
NoEdges == [now_us |-> 0, n |-> 0, edges |-> << >>, read_total |-> 0, cycles |-> 0]

\* Switches::Switches, in a system that has saved no switch states yet
InitSwitches(power_on) ==
    /\ switch_rtc_states_ = DefaultActive
    /\ switch_rtc_crc_ok = FALSE
    /\ LET r == switches_load_rtc_state(power_on, switch_rtc_states_, switch_rtc_crc_ok)
       IN /\ switch_active = r.active
          /\ using_rtc_state_ = r.using
    /\ debounce_first = [i \in Switch |-> TRUE]
    /\ switch_call = NoSwitchCall
    /\ switch_no = 0
    /\ encoder = NewEncoder
    /\ enc_obs = NoEdges
    /\ dimmers = [encoder_steps |-> 0, level_steps |-> 0]
    /\ dimmer_state_ = 0
    /\ dim_obs = NoReads
    /\ held_ = [t \in Threads |-> << >>]
    /\ steps_ = [t \in Threads |-> << >>]

\* the state after construction and setup(), with one of the configurations
InitQueued(configs, queued) ==
    /\ \E c \in configs : \E order \in Orders(DOMAIN c.groups) : InitConfig(c, order)
    /\ \E rtc \in RtcContents, power_on \in BOOLEAN :
          LET r == load_rtc_state(power_on, rtc.words, rtc.crc_ok)
          IN /\ (power_on => ~rtc.crc_ok)
             /\ InitLights(r.levels, r.status)
             /\ rtc_levels_ = rtc.words
             /\ rtc_crc_ok = rtc.crc_ok
             /\ InitSwitches(power_on)
    /\ now = 0
    /\ InitDali
    /\ InitObservers
    /\ InitNetwork(queued)

InitWith(configs) == InitQueued(configs, 0)

Init == InitWith(BootConfigs)

(***************************************************************************)
(* Operations on Lights and Config                                         *)
(***************************************************************************)
CountOp == /\ ops < MaxOps
           /\ ops' = ops + 1
           /\ pass_no' = 0

\* the values written to the levels are logged
LogLevels ==
    level_log' = [a \in Addr |-> IF levels_'[a] # levels_[a]
                                 THEN Append(level_log[a], levels_'[a])
                                 ELSE level_log[a]]

SelectPreset(t) ==
    /\ CountOp
    /\ select_preset(t[1], t[2], t[3])
    /\ LogLevels
    /\ UNCHANGED << configVars, ioVars, now, daliVars, busVars >>

SetLevel(t) ==
    /\ CountOp
    /\ set_level(t[1], t[2])
    /\ LogLevels
    /\ UNCHANGED << configVars, ioVars, now, daliVars, busVars >>

\* Switches::publish_switch
SetPower(group, on) ==
    /\ CountOp
    /\ set_power(get_group_addresses_name(group), on)
    /\ LogLevels
    /\ UNCHANGED << configVars, ioVars, now, daliVars, busVars >>

\* Dimmers: dim_adjust(dimmer_id, level) with the binding t of the dimmer;
\* the local "changed" of dim_adjust starts with whatever the stack holds
DimAdjust(t) ==
    \E changed0 \in BOOLEAN :
        /\ CountOp
        /\ dim_adjust(make_dimmer_text(t[1], t[2]), t[3], changed0)
        /\ LogLevels
        /\ UNCHANGED << configVars, ioVars, now, daliVars, busVars >>

\* API::receive, T/addresses
ApiAddresses(payload) ==
    /\ CountOp
    /\ set_addresses(BUILTIN_GROUP_ALL, payload, <<>>)
    /\ last_op' = Op("addresses", {}, {}, current_lights \ current_lights')
    /\ UNCHANGED << presets, ordered, fileVars, netVars, switchVars, saveRest,
                    lightVars, rtcVars, now, daliVars,
                    busVars, logVars >>

\* API::receive, T/group/<name>: set the members, or delete with no payload.
\* The result of set_group_addresses is dropped, and address_config_changed
\* (group) only notes the group for the republishing of its active presets.
ApiGroup(name, payload) ==
    /\ CountOp
    /\ IF Len(payload) > 0
       THEN \E order \in Orders(DOMAIN groups_by_name \cup {name}) :
                set_group_addresses(name, payload, order)
       ELSE delete_group(name)
    /\ last_op' = IF Len(payload) > 0
                  THEN OpCall("group", {}, get_group_addresses_name(name),
                              GroupResult(set_group_addresses_changed(name, payload)))
                  ELSE Op("delete_group", {}, get_group_addresses_name(name), {})
    /\ UNCHANGED << presets, ordered, fileVars, netVars, switchVars, saveRest,
                    lightVars, rtcVars, now, daliVars,
                    busVars, logVars >>

\* Config::save_config, ConfigFile::write_config(data): the current
\* configuration reaches the file, is read back, and reaches the backup file
CurrentConfig == ConfigData(current_lights, groups_by_name, groups_by_id)

\* Config::save_config returns at once (line 1042)
save_not_needed == saved_ /\ ~dirty_

SaveConfig ==
    /\ save_pc = "idle"
    /\ ~save_not_needed
    /\ dirty_' = FALSE
    /\ IF CurrentConfig = last_saved_
       THEN UNCHANGED << fileVars, saveRest >>
       ELSE /\ saved_config' = CurrentConfig
            /\ file_form' = [primary |-> "valid", backup |-> "valid"]
            /\ backup_config' = CurrentConfig
            /\ config_saved' = CurrentConfig
            /\ save_data' = CurrentConfig
            /\ last_saved_' = CurrentConfig
            /\ saved_' = TRUE
            /\ UNCHANGED save_pc
    /\ UNCHANGED << configVars, netVars, switchVars, lightVars, rtcVars, now,
                    daliVars, busVars, opVars, logVars >>

\* what read_config(reader) has put into data_ when it gives up on a file that
\* is well-formed CBOR and not a configuration: nothing, or what came first
PartialConfigs(data) ==
    { ConfigData({}, << >>, NoGroups), ConfigData(data.lights, << >>, NoGroups) }

\* ConfigFile::read_config(filename, true): false for a file that cannot be
\* opened or is not well-formed CBOR, true for any other file, whatever
\* read_config(reader) made of it
read_config_file(form, data, partial) ==
    [ok |-> form \in {"valid", "invalid"},
     data |-> IF form = "valid" THEN data ELSE partial]

\* ConfigFile::read_config(data): the file, or else the backup file, which is
\* then written to the file
read_config(partial) ==
    LET p == read_config_file(file_form.primary, saved_config, partial)
        b == read_config_file(file_form.backup, backup_config, partial)
    IN IF p.ok THEN [ok |-> TRUE, data |-> p.data, rewrite |-> FALSE]
       ELSE IF b.ok THEN [ok |-> TRUE, data |-> b.data, rewrite |-> TRUE]
       ELSE [ok |-> FALSE, data |-> b.data, rewrite |-> FALSE]

\* Config::load_config: the configuration read replaces current_, or current_
\* stays when nothing could be read
load_config(r) ==
    /\ current_lights' = IF r.ok THEN r.data.lights ELSE current_lights
    /\ groups_by_name' = IF r.ok THEN r.data.groups_by_name ELSE groups_by_name
    /\ groups_by_id' = IF r.ok THEN r.data.groups_by_id ELSE groups_by_id
    /\ IF r.rewrite
       THEN /\ saved_config' = r.data
            /\ file_form' = [file_form EXCEPT !.primary = "valid"]
       ELSE UNCHANGED << saved_config, file_form >>
    /\ UNCHANGED << backup_config, config_saved >>

\* Config::load_config, lines 277-279
load_config_saved(r) ==
    IF r.ok
    THEN /\ last_saved_' = r.data
         /\ dirty_' = FALSE
         /\ saved_' = TRUE
    ELSE UNCHANGED << last_saved_, dirty_, saved_ >>

\* Config::save_config, as part of a handler: the file and its backup are
\* written when the configuration is not the one last saved
save_config ==
    IF save_not_needed THEN UNCHANGED << fileVars, saveVars >>
    ELSE IF CurrentConfig = last_saved_
    THEN dirty_' = FALSE /\ UNCHANGED << fileVars, saveRest >>
    ELSE /\ saved_config' = CurrentConfig
         /\ file_form' = [primary |-> "valid", backup |-> "valid"]
         /\ backup_config' = CurrentConfig
         /\ config_saved' = CurrentConfig
         /\ dirty_' = FALSE
         /\ save_data' = CurrentConfig
         /\ last_saved_' = CurrentConfig
         /\ saved_' = TRUE
         /\ UNCHANGED save_pc

\* API::receive, T/reload: load_config, and save_config, which returns at once
\* after a load and writes the configuration in memory when nothing was loaded
ApiReload ==
    /\ CountOp
    /\ save_pc = "idle"
    /\ \E partial \in PartialConfigs(saved_config) :
          /\ IF read_config(partial).ok
             THEN /\ load_config(read_config(partial))
                  /\ load_config_saved(read_config(partial))
                  /\ UNCHANGED << save_pc, save_data >>
             ELSE /\ UNCHANGED << current_lights, groups_by_name, groups_by_id >>
                  /\ save_config
          /\ last_op' = Op("reload", {}, {},
                           current_lights \ read_config(partial).data.lights)
    /\ \E order \in Orders(DOMAIN groups_by_name') : PublishAll(publish_config(order), TRUE)
    /\ address_config_changed(current_lights')
    /\ UNCHANGED << mqtt_connected, dropped_messages_, oversized_messages_,
                    startup_complete_, mqtt_sent, loops, connects, pings,
                    echoes, switchVars >>
    /\ UNCHANGED << presets, ordered, levels_, group_levels_, broadcast_level_,
                    group_sync_, force_refresh_, force_refresh_count_,
                    broadcast_power_on_level_, broadcast_system_failure_level_,
                    power_on_, power_known_, active_presets_, last_activity_us_,
                    boot_rtc_, rtcVars, now, daliVars, busVars, logVars >>

\* time passes, until the lights are idle
Tick ==
    /\ now < MaxNow
    /\ ~is_idle
    /\ now' = now + IDLE_S
    /\ UNCHANGED << configVars, ioVars, lightVars, rtcVars, daliVars, busVars,
                    opVars, logVars >>

LightsNext ==
    \/ \E t \in SelectPresetArgs : SelectPreset(t)
    \/ \E t \in SetLevelArgs : SetLevel(t)
    \/ \E group \in SwitchGroups, on \in BOOLEAN : SetPower(group, on)
    \/ \E t \in DimAdjustArgs : DimAdjust(t)
    \/ \E payload \in AddressesPayloads : ApiAddresses(payload)
    \/ \E name \in GroupTopics, payload \in GroupPayloads : ApiGroup(name, payload)
    \/ SaveConfig
    \/ ApiReload
    \/ Tick

SpecLights == Init /\ [][LightsNext]_vars

(***************************************************************************)
(* Properties of Lights                                                    *)
(***************************************************************************)
IndividualOps == {"set_level", "select_preset", "dim_adjust_individual"}

\* C1: every address with a level other than LEVEL_NO_CHANGE is present, and
\* the addresses the last operation removed from the present set have the
\* level LEVEL_NO_CHANGE and no active preset
C1_LevelPresentCoupling ==
    /\ \A a \in Addr : levels_[a] # LEVEL_NO_CHANGE => a \in current_lights
    /\ \A a \in last_op.removed :
          levels_[a] = LEVEL_NO_CHANGE /\ active_presets_[a] = ""

\* C2: every address in group_level_addresses_ is a member of a configured
\* group whose group level is set and equals the level of the address
C2_GroupLevelConsistency ==
    \A a \in group_level_addresses_ :
        \E g \in Group :
            /\ a \in groups_by_id[g]
            /\ group_levels_[g] # LEVEL_NO_CHANGE
            /\ group_levels_[g] = levels_[a]

\* C3: when set_level, select_preset or dim_adjust in individual mode has set
\* the level of the addresses S, no address of S is in group_level_addresses_
\* and every group with a member in S has the group level LEVEL_NO_CHANGE
C3_IndividualClearsGroup ==
    last_op.name \in IndividualOps =>
        /\ last_op.written \cap group_level_addresses_ = {}
        /\ \A g \in Group :
              groups_by_id[g] \cap last_op.written # {}
                  => group_levels_[g] = LEVEL_NO_CHANGE

\* an individual level was set for a member of a group, after another operation
C3_Witness ==
    /\ last_op.name = "dim_adjust_individual"
    /\ ops = 2
    /\ \E g \in Group : groups_by_id[g] \cap last_op.written # {}
    /\ \E a \in last_op.written : levels_[a] = 140

(***************************************************************************)
(* Dali                                                                    *)
(***************************************************************************)
RECURSIVE BitOr(_, _)
BitOr(a, b) ==
    IF a = 0 THEN b
    ELSE IF b = 0 THEN a
    ELSE (IF a % 2 = 1 \/ b % 2 = 1 THEN 1 ELSE 0) + 2 * BitOr(a \div 2, b \div 2)

Shl(a, n) == a * (2 ^ n)
Byte(x) == x % 256

\* a frame on the bus: the two bytes and whether it is sent twice; kind and to
\* record the function that sent it and the address or group it was sent for
Frame(kind, to, address, data, repeat) ==
    [kind |-> kind, to |-> to, address |-> Byte(address), data |-> Byte(data),
     repeat |-> repeat]

tx_address_power_level_command(kind, address, level) ==
    Frame(kind, address, BitOr(Shl(address, 1), DATA_COMMAND), level, FALSE)

tx_address_power_level(kind, address, level) ==
    Frame(kind, address, BitOr(Shl(address, 1), DATA_POWER_LEVEL), level, FALSE)

tx_group_power_level(group, level) ==
    Frame("group_level", group,
          BitOr(BitOr(Shl(GROUP_ADDRESS, 1), Shl(group, 1)), DATA_POWER_LEVEL),
          level, FALSE)

tx_address_command(kind, address, command, repeat) ==
    Frame(kind, address, BitOr(Shl(address, 1), DATA_COMMAND), command, repeat)

tx_group_command(kind, group, command, repeat) ==
    Frame(kind, group, BitOr(BitOr(Shl(GROUP_ADDRESS, 1), Shl(group, 1)), DATA_COMMAND),
          command, repeat)

tx_broadcast_command(kind, command, repeat) ==
    Frame(kind, BROADCAST_ADDRESS, BitOr(Shl(BROADCAST_ADDRESS, 1), DATA_COMMAND),
          command, repeat)

\* an add-to-group frame that is sent once
tx_address_group_add_once(address, group) ==
    tx_address_command("group_add", address, COMMAND_ADD_TO_GROUP + group, FALSE)

tx_address_group_add(address, group) ==
    tx_address_command("group_add", address, COMMAND_ADD_TO_GROUP + group, TRUE)

tx_group_empty(group) ==
    tx_group_command("group_empty", group, COMMAND_REMOVE_FROM_GROUP + group, TRUE)

tx_set_dtr_from_actual_level ==
    tx_broadcast_command("dtr", COMMAND_STORE_ACTUAL_LEVEL_IN_DTR, TRUE)

tx_set_power_on_level_from_dtr ==
    tx_broadcast_command("power_on_level", COMMAND_SET_POWER_ON_LEVEL_FROM_DTR, TRUE)

\* a system failure level frame that carries the power-on level command
tx_set_system_failure_level_as_power_on ==
    tx_broadcast_command("system_failure_level", COMMAND_SET_POWER_ON_LEVEL_FROM_DTR,
                         TRUE)

tx_set_system_failure_level_from_dtr ==
    tx_broadcast_command("system_failure_level",
                         COMMAND_SET_SYSTEM_FAILURE_LEVEL_FROM_DTR, TRUE)

\* a group loop that leaves the cached levels alone
GroupFrameAddresses_none(st, group) == {}

\* the addresses whose cached level the group loop overwrites after a group
\* frame: its inner loop runs over every address
GroupFrameAddresses(st, group) == Addr

\* The thread-local part of run_tasks.  c holds the locals of the thread:
\*   phase, i   the loop that runs next and its index
\*   st         the LightsState last returned by get_state
\*   txl, txg, na, ng   tx_levels_, tx_group_levels_, next_address_, next_group_
\*   changed, refresh, count   the locals of the same name
\*   frames, bus   the frames sent in this pass; the level each light received
\*   heard      the lights that received a level in this step
\*   txn, fail  transmits attempted in this step; the ones of them that fail
\*   failed     the frames of this pass whose transmit failed and that were not
\*              sent later in the pass
\*   pc         where the step stops
TxOk(c) == (c.txn + 1) \notin c.fail

\* the bytes and the repeat of a frame
FrameBytes(f) == << f.address, f.data, f.repeat >>

\* the failed frames without the ones that have the bytes of f
Unsent(failed, f) ==
    LET other(k) == FrameBytes(failed[k]) # FrameBytes(f)
        at == { k \in DOMAIN failed : other(k) }
        nth(n) == CHOOSE k \in at : Cardinality({ j \in at : j <= k }) = n
    IN [n \in 1 .. Cardinality(at) |-> failed[nth(n)]]

Sent(c, f) == [c EXCEPT !.txn = @ + 1, !.frames = Append(@, f),
                        !.failed = Unsent(@, f)]
NotSent(c, f) == [c EXCEPT !.txn = @ + 1, !.failed = Append(@, f)]

\* one iteration of the group loop that found a difference (lines 125-143)
GroupIteration(c) ==
    LET group == c.ng
        level == c.st.group_levels[group]
        next == [c EXCEPT !.ng = (@ + 1) % (MAX_GROUP + 1), !.i = @ + 1,
                          !.pc = "group_snap"]
    IN IF level = LEVEL_NO_CHANGE
       THEN [next EXCEPT !.txg[group] = LEVEL_NO_CHANGE]
       ELSE IF TxOk(c)
       THEN [Sent(next, tx_group_power_level(group, level)) EXCEPT
                !.txg[group] = level,
                !.changed = TRUE,
                !.refresh = FALSE,
                !.count = @ + 1,
                !.txl = [a \in Addr |-> IF a \in GroupFrameAddresses(c.st, group)
                                        THEN level ELSE @[a]],
                !.bus = [a \in Addr |-> IF a \in c.st.group_addresses[group]
                                        THEN level ELSE @[a]],
                !.heard = @ \cup c.st.group_addresses[group]]
       ELSE NotSent(next, tx_group_power_level(group, level))

\* a test of the address loop that does not look at group_level_addresses
AddressDiffers_governed(c, address) ==
    /\ address \in c.st.addresses
    /\ \/ address \in c.st.force_refresh
       \/ c.st.levels[address] # c.txl[address]

\* the test of the address loop (lines 152-155)
AddressDiffers(c, address) ==
    /\ address \in c.st.addresses
    /\ address \notin c.st.group_level_addresses
    /\ \/ address \in c.st.force_refresh
       \/ c.st.levels[address] # c.txl[address]

\* one iteration of the address loop that passed the test (lines 156-171)
AddressIteration(c) ==
    LET address == c.na
        level == c.st.levels[address]
        next == [c EXCEPT !.na = (@ + 1) % (MAX_ADDR + 1), !.i = @ + 1,
                          !.pc = "addr_snap"]
    IN IF level = LEVEL_NO_CHANGE
       THEN [next EXCEPT !.txl[address] = LEVEL_NO_CHANGE]
       ELSE IF TxOk(c)
       THEN [Sent(next, tx_address_power_level("address_level", address, level)) EXCEPT
                !.txl[address] = level,
                !.changed = TRUE,
                !.refresh = FALSE,
                !.count = @ + 1,
                !.bus[address] = level,
                !.heard = @ \cup {address},
                !.pc = IF address \in c.st.force_refresh THEN "addr_ack"
                       ELSE "addr_snap"]
       ELSE NotSent(next, tx_address_power_level("address_level", address, level))

\* a group sync that goes on to the next member after a transmit that failed
RECURSIVE SyncMembers_all(_, _, _)
SyncMembers_all(c, group, a) ==
    IF a > MAX_ADDR THEN [c EXCEPT !.pc = "sync_ack"]
    ELSE IF a \notin c.st.group_addresses[group] THEN SyncMembers_all(c, group, a + 1)
    ELSE IF TxOk(c)
    THEN SyncMembers_all(Sent(c, tx_address_group_add(a, group)), group, a + 1)
    ELSE SyncMembers_all(NotSent(c, tx_address_group_add(a, group)), group, a + 1)

\* the add-to-group frames of one group sync, members from address a on
RECURSIVE SyncMembers(_, _, _)
SyncMembers(c, group, a) ==
    IF a > MAX_ADDR THEN [c EXCEPT !.pc = "sync_ack"]
    ELSE IF a \notin c.st.group_addresses[group] THEN SyncMembers(c, group, a + 1)
    ELSE IF TxOk(c) THEN SyncMembers(Sent(c, tx_address_group_add(a, group)), group, a + 1)
    ELSE NotSent(c, tx_address_group_add(a, group))

\* a refresh loop that sends the level without caching it
RECURSIVE RefreshLoop_nocache(_, _)
RefreshLoop_nocache(c, i) ==
    IF i > MAX_ADDR \/ c.changed THEN c
    ELSE LET address == c.na
             level == c.st.levels[address]
             next == [c EXCEPT !.na = (@ + 1) % (MAX_ADDR + 1)]
         IN IF address \notin c.st.addresses \/ level = LEVEL_NO_CHANGE
            THEN RefreshLoop_nocache(next, i + 1)
            ELSE IF TxOk(c)
            THEN RefreshLoop_nocache(
                    [Sent(next, tx_address_power_level("refresh", address, level)) EXCEPT
                        !.changed = TRUE,
                        !.bus[address] = level,
                        !.heard = @ \cup {address}], i + 1)
            ELSE RefreshLoop_nocache(NotSent(next, tx_address_power_level("refresh", address, level)),
                             i + 1)

\* a refresh loop that goes on after a frame was sent
RECURSIVE RefreshLoop_all(_, _)
RefreshLoop_all(c, i) ==
    IF i > MAX_ADDR THEN c
    ELSE LET address == c.na
             level == c.st.levels[address]
             next == [c EXCEPT !.na = (@ + 1) % (MAX_ADDR + 1)]
         IN IF address \notin c.st.addresses THEN RefreshLoop_all(next, i + 1)
            ELSE IF level = LEVEL_NO_CHANGE
            THEN RefreshLoop_all([next EXCEPT !.txl[address] = LEVEL_NO_CHANGE], i + 1)
            ELSE IF TxOk(c)
            THEN RefreshLoop_all(
                    [Sent(next, tx_address_power_level("refresh", address, level)) EXCEPT
                        !.txl[address] = level,
                        !.changed = TRUE,
                        !.bus[address] = level,
                        !.heard = @ \cup {address}], i + 1)
            ELSE RefreshLoop_all(NotSent(next, tx_address_power_level("refresh", address, level)),
                             i + 1)

\* the refresh loop (lines 231-247), from iteration i on
RECURSIVE RefreshLoop(_, _)
RefreshLoop(c, i) ==
    IF i > MAX_ADDR \/ c.changed THEN c
    ELSE LET address == c.na
             level == c.st.levels[address]
             next == [c EXCEPT !.na = (@ + 1) % (MAX_ADDR + 1)]
         IN IF address \notin c.st.addresses THEN RefreshLoop(next, i + 1)
            ELSE IF level = LEVEL_NO_CHANGE
            THEN RefreshLoop([next EXCEPT !.txl[address] = LEVEL_NO_CHANGE], i + 1)
            ELSE IF TxOk(c)
            THEN RefreshLoop(
                    [Sent(next, tx_address_power_level("refresh", address, level)) EXCEPT
                        !.txl[address] = level,
                        !.changed = TRUE,
                        !.bus[address] = level,
                        !.heard = @ \cup {address}], i + 1)
            ELSE RefreshLoop(NotSent(next, tx_address_power_level("refresh", address, level)),
                             i + 1)

\* run the thread from (phase, i) up to its next call into Lights
RECURSIVE Run(_)
Run(c) ==
    CASE c.phase = "group" ->
            LET differ == { j \in c.i .. MAX_GROUP :
                              LET g == (c.ng + (j - c.i)) % (MAX_GROUP + 1)
                              IN c.st.group_levels[g] # c.txg[g] }
            IN IF differ = {}
               THEN Run([c EXCEPT !.phase = "addr", !.i = 0,
                                  !.ng = (@ + (MAX_GROUP + 1 - c.i)) % (MAX_GROUP + 1)])
               ELSE LET j == CHOOSE x \in differ : \A y \in differ : x <= y
                    IN GroupIteration([c EXCEPT !.i = j,
                                         !.ng = (@ + (j - c.i)) % (MAX_GROUP + 1)])
      [] c.phase = "addr" ->
            LET differ == { j \in c.i .. MAX_ADDR :
                              AddressDiffers(c, (c.na + (j - c.i)) % (MAX_ADDR + 1)) }
            IN IF differ = {}
               THEN LET end == [c EXCEPT !.i = 0,
                                  !.na = (@ + (MAX_ADDR + 1 - c.i)) % (MAX_ADDR + 1)]
                    IN IF c.changed
                       THEN Run([end EXCEPT !.phase = "group", !.changed = FALSE])
                       ELSE Run([end EXCEPT !.phase = "sync"])
               ELSE LET j == CHOOSE x \in differ : \A y \in differ : x <= y
                    IN AddressIteration([c EXCEPT !.i = j,
                                           !.na = (@ + (j - c.i)) % (MAX_ADDR + 1)])
      [] c.phase = "sync" ->
            LET pending == { g \in c.i .. MAX_GROUP : g \in c.st.group_sync }
            IN IF pending = {} THEN Run([c EXCEPT !.phase = "broadcast", !.i = 0])
               ELSE LET group == CHOOSE x \in pending : \A y \in pending : x <= y
                        at == [c EXCEPT !.i = group + 1]
                    IN IF ~TxOk(at) THEN Run(NotSent(at, tx_group_empty(group)))
                       ELSE LET r == SyncMembers(Sent(at, tx_group_empty(group)), group, 0)
                            IN IF r.pc = "sync_ack" THEN r ELSE Run(r)
      [] c.phase = "broadcast" ->
            IF c.st.broadcast_power_on_level \/ c.st.broadcast_system_failure_level
            THEN IF ~TxOk(c)
                 THEN Run([NotSent(c, tx_set_dtr_from_actual_level) EXCEPT
                              !.phase = "refresh"])
                 ELSE Run([Sent(c, tx_set_dtr_from_actual_level) EXCEPT
                              !.phase = "power_on_level"])
            ELSE Run([c EXCEPT !.phase = "refresh"])
      [] c.phase = "power_on_level" ->
            IF c.st.broadcast_power_on_level
            THEN IF TxOk(c)
                 THEN [Sent(c, tx_set_power_on_level_from_dtr) EXCEPT
                          !.phase = "system_failure_level", !.pc = "power_on_ack"]
                 ELSE Run([NotSent(c, tx_set_power_on_level_from_dtr) EXCEPT
                              !.phase = "system_failure_level"])
            ELSE Run([c EXCEPT !.phase = "system_failure_level"])
      [] c.phase = "system_failure_level" ->
            IF c.st.broadcast_system_failure_level
            THEN IF TxOk(c)
                 THEN [Sent(c, tx_set_system_failure_level_from_dtr) EXCEPT
                          !.phase = "refresh", !.pc = "system_failure_ack"]
                 ELSE Run([NotSent(c, tx_set_system_failure_level_from_dtr) EXCEPT
                              !.phase = "refresh"])
            ELSE Run([c EXCEPT !.phase = "refresh"])
      [] c.phase = "refresh" ->
            [(IF c.refresh THEN RefreshLoop(c, 0) ELSE c) EXCEPT
                !.phase = "done", !.pc = "sleep"]

\* the ways the transmits of one step can fail
FailPlans ==
    { F \in SUBSET (1 .. MaxStepTx) : Cardinality(F) <= MaxTxFail - tx_fail }

Locals(phase, i, st, fail) ==
    [phase |-> phase, i |-> i, st |-> st,
     txl |-> tx_levels_, txg |-> tx_group_levels_, na |-> next_address_,
     ng |-> next_group_, changed |-> changed, refresh |-> refresh, count |-> count,
     frames |-> pass_frames, bus |-> bus_level, heard |-> {}, txn |-> 0, fail |-> fail,
     failed |-> IF phase = "group" /\ pc = "sleep" THEN <<>> ELSE pass_failed,
     pc |-> ""]

\* the thread has run to r, in a pass that had sent the first base frames
Ran(r, base) ==
    /\ r.fail \subseteq 1 .. r.txn
    /\ tx_levels_' = r.txl
    /\ tx_group_levels_' = r.txg
    /\ next_address_' = r.na
    /\ next_group_' = r.ng
    /\ pc' = r.pc
    /\ loop_i' = r.i
    /\ state' = r.st
    /\ changed' = r.changed
    /\ refresh' = r.refresh
    /\ count' = r.count
    /\ pass_frames' = r.frames
    /\ step_frames' = SubSeq(r.frames, base + 1, Len(r.frames))
    /\ bus_level' = r.bus
    /\ LET later(a) == { k \in Max(bus_pos[a], 1) .. Len(level_log[a]) :
                           level_log[a][k] = r.bus[a] }
       IN /\ bus_pos' = [a \in Addr |->
                            IF a \in r.heard /\ later(a) # {}
                            THEN CHOOSE k \in later(a) : \A j \in later(a) : k <= j
                            ELSE bus_pos[a]]
          /\ bus_disorder' = bus_disorder \cup { a \in r.heard : later(a) = {} }
    /\ tx_fail' = tx_fail + Cardinality(r.fail)
    /\ pass_failed' = r.failed
    /\ last_failed' = IF pc = "sleep" THEN pass_failed ELSE last_failed
    /\ turn' = ~turn

\* a pass begins: run_tasks up to the first call after get_state (line 113)
DaliStart(fail) ==
    /\ pc = "sleep"
    /\ LET c == [Locals("group", 0, get_state, fail) EXCEPT
                    !.changed = FALSE, !.refresh = TRUE, !.count = 0, !.frames = <<>>]
           r == Run(c)
       IN Ran(r, 0)
    /\ pass_no' = Min(pass_no + 1, MaxPassNo)
    /\ UNCHANGED << configVars, ioVars, lightVars, rtcVars, now, last_op, ops,
                    logVars >>

\* state = lights_.get_state() at the end of an iteration (lines 141, 169)
DaliSnapshot(fail) ==
    /\ pc \in {"group_snap", "addr_snap"}
    /\ Ran(Run(Locals(IF pc = "group_snap" THEN "group" ELSE "addr", loop_i,
                      get_state, fail)), Len(pass_frames))
    /\ UNCHANGED << configVars, ioVars, lightVars, rtcVars, now, opVars, logVars >>

\* a completed_force_refresh that ends the force refresh at the first frame
completed_force_refresh_clear(light_id) ==
    /\ force_refresh_count_' = [force_refresh_count_ EXCEPT ![light_id] = 0]
    /\ force_refresh_' = force_refresh_ \ {light_id}

\* Lights::completed_force_refresh, called at line 165
completed_force_refresh(light_id) ==
    IF light_id >= num_addresses
    THEN UNCHANGED << force_refresh_count_, force_refresh_ >>
    ELSE LET n == IF force_refresh_count_[light_id] > 0
                  THEN force_refresh_count_[light_id] - 1 ELSE 0
         IN /\ force_refresh_count_' = [force_refresh_count_ EXCEPT ![light_id] = n]
            /\ force_refresh_' = IF n > 0 THEN force_refresh_ \cup {light_id}
                                 ELSE force_refresh_ \ {light_id}

DaliForceRefreshAck ==
    /\ pc = "addr_ack"
    /\ completed_force_refresh((next_address_ + MAX_ADDR) % (MAX_ADDR + 1))
    /\ pc' = "addr_snap"
    /\ step_frames' = <<>>
    /\ turn' = ~turn
    /\ UNCHANGED << configVars, ioVars, levels_, group_levels_, broadcast_level_,
                    group_level_addresses_, group_sync_, broadcast_power_on_level_,
                    broadcast_system_failure_level_, power_on_, power_known_,
                    active_presets_, last_activity_us_, boot_rtc_, rtcVars, now,
                    tx_levels_, tx_group_levels_, next_address_, next_group_, loop_i,
                    state, changed, refresh, count, pass_frames, bus_level, tx_fail,
                    pass_failed, last_failed,
                    bus_pos, bus_disorder, opVars, logVars >>

\* Lights::completed_group_sync, called at line 204; then the next groups
DaliGroupSyncAck(fail) ==
    /\ pc = "sync_ack"
    /\ group_sync_' = group_sync_ \ {loop_i - 1}
    /\ Ran(Run(Locals("sync", loop_i, state, fail)), Len(pass_frames))
    /\ UNCHANGED << configVars, ioVars, levels_, group_levels_, broadcast_level_,
                    group_level_addresses_, force_refresh_, force_refresh_count_,
                    broadcast_power_on_level_, broadcast_system_failure_level_,
                    power_on_, power_known_, active_presets_, last_activity_us_,
                    boot_rtc_, rtcVars, now, opVars, logVars >>

\* Lights::completed_broadcast_power_on_level, called at line 212
DaliPowerOnLevelAck(fail) ==
    /\ pc = "power_on_ack"
    /\ broadcast_power_on_level_' = FALSE
    /\ Ran(Run(Locals("system_failure_level", loop_i, state, fail)), Len(pass_frames))
    /\ UNCHANGED << configVars, ioVars, levels_, group_levels_, broadcast_level_,
                    group_level_addresses_, group_sync_, force_refresh_,
                    force_refresh_count_, broadcast_system_failure_level_,
                    power_on_, power_known_, active_presets_, last_activity_us_,
                    boot_rtc_, rtcVars, now, opVars, logVars >>

\* Lights::completed_broadcast_system_failure_level, called at line 218
DaliSystemFailureLevelAck(fail) ==
    /\ pc = "system_failure_ack"
    /\ broadcast_system_failure_level_' = FALSE
    /\ Ran(Run(Locals("refresh", loop_i, state, fail)), Len(pass_frames))
    /\ UNCHANGED << configVars, ioVars, levels_, group_levels_, broadcast_level_,
                    group_level_addresses_, group_sync_, force_refresh_,
                    force_refresh_count_, broadcast_power_on_level_,
                    power_on_, power_known_, active_presets_, last_activity_us_,
                    boot_rtc_, rtcVars, now, opVars, logVars >>

\* Lights::request_group_sync(), request_group_sync(group)
RequestGroupSync(name) ==
        /\ CountOp
        /\ group_sync_' =
              IF name = BUILTIN_GROUP_ALL THEN Group
              ELSE IF name \in DOMAIN groups_by_name /\ groups_by_name[name].id < num_groups
              THEN group_sync_ \cup {groups_by_name[name].id}
              ELSE group_sync_
        /\ last_op' = Op("request_group_sync", {}, {}, {})
        /\ UNCHANGED << configVars, ioVars, levels_, group_levels_, broadcast_level_,
                        group_level_addresses_, force_refresh_, force_refresh_count_,
                        broadcast_power_on_level_, broadcast_system_failure_level_,
                        power_on_, power_known_, active_presets_, last_activity_us_,
                        boot_rtc_, rtcVars, now, daliVars, busVars, logVars >>

\* Lights::request_broadcast_power_on_level, ..._system_failure_level
RequestBroadcast(power_on) ==
        /\ CountOp
        /\ IF power_on
           THEN /\ broadcast_power_on_level_' = TRUE
                /\ UNCHANGED broadcast_system_failure_level_
           ELSE /\ broadcast_system_failure_level_' = TRUE
                /\ UNCHANGED broadcast_power_on_level_
        /\ last_op' = Op(IF power_on THEN "request_broadcast_power_on_level"
                         ELSE "request_broadcast_system_failure_level", {}, {}, {})
        /\ UNCHANGED << configVars, ioVars, levels_, group_levels_, broadcast_level_,
                        group_level_addresses_, group_sync_, force_refresh_,
                        force_refresh_count_, power_on_, power_known_, active_presets_,
                        last_activity_us_, boot_rtc_, rtcVars, now, daliVars, busVars,
                        logVars >>

\* the steps of the Dali thread
DaliNext ==
    \/ \E fail \in FailPlans : DaliStart(fail)
    \/ \E fail \in FailPlans : DaliSnapshot(fail)
    \/ DaliForceRefreshAck
    \/ \E fail \in FailPlans : DaliGroupSyncAck(fail)
    \/ \E fail \in FailPlans : DaliPowerOnLevelAck(fail)
    \/ \E fail \in FailPlans : DaliSystemFailureLevelAck(fail)

\* the operations the thread is run against
DaliSetLevelArgs == { << <<ItNum(5)>>, 150 >> }
DaliDimAdjustArgs == { << "GROUP", <<"kitchen">>, 20 >>, << "GROUP", <<"hall">>, -20 >> }
DaliAddressesPayloads == { <<5, 6>> }

Next ==
    \/ \E t \in DaliSetLevelArgs : SetLevel(t)
    \/ \E t \in DaliDimAdjustArgs : DimAdjust(t)
    \/ \E on \in BOOLEAN : SetPower("kitchen", on)
    \/ \E payload \in DaliAddressesPayloads : ApiAddresses(payload)
    \/ RequestGroupSync("kitchen")
    \/ \E power_on \in BOOLEAN : RequestBroadcast(power_on)
    \/ DaliNext

Spec == Init /\ [][Next]_vars

\* the thread against a switch that turns the lights 10 and 11 off and on
InitSwitch == InitWith(SwitchConfigs) /\ boot_rtc_ = "LOADED_OK"

NextSwitch ==
    \/ \E on \in BOOLEAN : SetPower("hall", on)
    \/ RequestGroupSync("hall")
    \/ \E power_on \in BOOLEAN : RequestBroadcast(power_on)
    \/ DaliNext

SpecSwitch == InitSwitch /\ [][NextSwitch]_vars

(***************************************************************************)
(* Properties of the Dali thread                                           *)
(***************************************************************************)
\* the places in pass_frames of the frames of the kinds
FrameAt(kinds) == { k \in DOMAIN pass_frames : pass_frames[k].kind \in kinds }

ChangeKinds == {"group_level", "address_level"}
LevelKinds == ChangeKinds \cup {"refresh"}

\* the level frames of the pass, in the order sent
LevelFrames ==
    LET at == FrameAt(LevelKinds)
        nth(n) == CHOOSE k \in at : Cardinality({ j \in at : j <= k }) = n
    IN [n \in 1 .. Cardinality(at) |-> pass_frames[nth(n)]]

\* no transmit has failed, and since the last operation on Lights the thread
\* has finished the pass that sends the changes and one pass for each light
Settled ==
    /\ pc = "sleep"
    /\ tx_fail = 0
    /\ pass_no >= 1 + Cardinality(current_lights)

C5_BusFollowsWrites ==
    tx_fail = 0 => \A a \in current_lights : a \notin bus_disorder

\* C6: once the thread has settled, no present address with a level is left
\* with force_refresh_count_ above 0
C6_ForceRefreshDrains ==
    Settled =>
        \A a \in current_lights :
            levels_[a] # LEVEL_NO_CHANGE => force_refresh_count_[a] = 0

\* the switch turned the lights 10 and 11 on, both at the level 180, from off
\* or unknown, while the thread slept; no transmit has failed
SwitchedOn ==
    /\ last_op.name = "set_power_on"
    /\ last_op.written = {10, 11}
    /\ last_op.pc = "sleep"
    /\ levels_[10] = 180 /\ levels_[11] = 180
    /\ tx_fail = 0

\* the places in the level frames of the pass of the frame (address byte, 180)
ForceFrames(address) ==
    { k \in DOMAIN LevelFrames :
        /\ LevelFrames[k].address = address
        /\ LevelFrames[k].data = 180
        /\ ~LevelFrames[k].repeat }

\* C7 as stated: the switch on sets force_refresh_count_ to 2 for 10 and 11;
\* after the next two passes it is 0 for both, and further passes send no frame
C7_Original ==
    SwitchedOn =>
        /\ pass_no = 0 => \A a \in {10, 11} : force_refresh_count_[a] = 2
        /\ (pass_no >= 2 /\ pc = "sleep")
              => \A a \in {10, 11} : force_refresh_count_[a] = 0
        /\ (pass_no >= 3 /\ pc = "sleep") => pass_frames = <<>>

\* C7: the switch on sets force_refresh_count_ to 2 for 10 and 11; the next
\* pass sends exactly two frames (0x14, 180) and two frames (0x16, 180), after
\* which force_refresh_count_ is 0 for both; each further pass sends one
\* refresh frame, to a present address
C7_PowerCycle ==
    SwitchedOn =>
        /\ pass_no = 0 => \A a \in {10, 11} : force_refresh_count_[a] = 2
        /\ (pass_no = 1 /\ pc = "sleep") =>
              /\ Len(LevelFrames) = 4
              /\ Cardinality(ForceFrames(20)) = 2
              /\ Cardinality(ForceFrames(22)) = 2
              /\ FrameAt({"refresh"}) = {}
              /\ \A a \in {10, 11} : force_refresh_count_[a] = 0
        /\ (pass_no >= 2 /\ pc = "sleep") =>
              /\ Len(LevelFrames) = 1
              /\ LevelFrames[1].kind = "refresh"
              /\ LevelFrames[1].to \in current_lights
              /\ LevelFrames[1].data = levels_[LevelFrames[1].to]
              /\ \A a \in {10, 11} : force_refresh_count_[a] = 0

\* the switch went off and on, and the thread has run two passes since
C7_Witness ==
    /\ SwitchedOn
    /\ ops = 2
    /\ power_known_ = {10, 11}
    /\ pass_no = 2
    /\ pc = "sleep"
    /\ Len(pass_frames) = 1

\* C8: when the thread has sent a group frame for a group, tx_levels_ holds
\* the level of the group for every member of the group before the thread
\* reads the state of Lights again and decides on any further frame
C8_GroupFrameCachesMembers ==
    (pc = "group_snap" /\ step_frames # <<>>) =>
        LET f == step_frames[1]
        IN /\ f.kind = "group_level"
           /\ f.data = state.group_levels[f.to]
           /\ \A a \in state.group_addresses[f.to] : tx_levels_[a] = f.data

\* a group frame was sent for a group with two present members, after the
\* thread had sent each of them its own level
C8_Witness ==
    /\ pc = "group_snap"
    /\ step_frames # <<>>
    /\ pass_no >= 2
    /\ \E a, b \in state.group_addresses[step_frames[1].to] \cap current_lights :
          /\ a # b
          /\ bus_level[a] = step_frames[1].data
          /\ tx_levels_[a] = step_frames[1].data
          /\ tx_levels_[b] = step_frames[1].data

\* scenario S2: the group kitchen has the id 3 and the members 5 and 6; a
\* dimmer in group mode took them to 130 while the thread slept, and the
\* thread has run the next pass without a failed transmit
DimmedKitchen ==
    /\ last_op.name = "dim_adjust_group"
    /\ last_op.written = {5, 6}
    /\ last_op.pc = "sleep"
    /\ groups_by_id[3] = {5, 6}
    /\ group_levels_[3] = 130
    /\ levels_[5] = 130 /\ levels_[6] = 130
    /\ pass_no = 1
    /\ pc = "sleep"
    /\ tx_fail = 0

S2Frames == LevelFrames = << Frame("group_level", 3, 134, 130, FALSE) >>

\* C9 as stated: a pass that has sent a group frame for a group sends no
\* address frame and no refresh frame to a member of the group after it; in
\* S2 the pass sends the one frame (0x86, 130), not repeated, and no address
\* frame
C9_Original ==
    /\ \A k, j \in DOMAIN pass_frames :
          (k < j /\ pass_frames[k].kind = "group_level"
             /\ pass_frames[j].kind \in {"address_level", "refresh"})
                => pass_frames[j].to \notin groups_by_id[pass_frames[k].to]
    /\ DimmedKitchen => S2Frames

\* C9: a pass that sends a group frame sends no refresh frame, and the thread
\* sends an address frame only to an address that the state of Lights it
\* decided on shows outside group_level_addresses; in S2 the pass sends the one
\* frame (0x86, 130), not repeated, and no address frame
C9_GroupPass ==
    /\ FrameAt({"group_level"}) # {} => FrameAt({"refresh"}) = {}
    /\ (pc \in {"addr_snap", "addr_ack"} /\ step_frames # <<>>) =>
          /\ step_frames[1].kind = "address_level"
          /\ step_frames[1].to \notin state.group_level_addresses
    /\ DimmedKitchen => S2Frames

\* scenario S2 has run: the bus carried the group frame for 5 and 6
C9_Witness ==
    /\ DimmedKitchen
    /\ current_lights = {5, 6}
    /\ bus_level[5] = 130 /\ bus_level[6] = 130
    /\ Len(pass_frames) = 1

\* the address the cursor pointed to when the pass in progress began
PassStart ==
    IF pc \in {"addr_snap", "addr_ack"}
    THEN (next_address_ + (MAX_ADDR + 1) - loop_i) % (MAX_ADDR + 1)
    ELSE next_address_

\* the addresses of st that are present and have a level
Refreshable(st) == { a \in st.addresses : st.levels[a] # LEVEL_NO_CHANGE }

\* the first of them in cursor order
NextRefresh(st, from) ==
    CHOOSE a \in Refreshable(st) :
        \A b \in Refreshable(st) :
            (a + (MAX_ADDR + 1) - from) % (MAX_ADDR + 1)
                <= (b + (MAX_ADDR + 1) - from) % (MAX_ADDR + 1)

\* C10 as stated: with no failed transmit, a finished pass that sent no other
\* frame holds exactly one refresh frame (none when no present address has a
\* level), and a pass that sent a level, group sync or broadcast frame holds
\* no refresh frame
C10_Original ==
    (pc = "sleep" /\ tx_fail = 0) =>
        IF FrameAt({"refresh"}) = DOMAIN pass_frames
        THEN Len(pass_frames) = 1 \/ Refreshable(state) = {}
        ELSE FrameAt({"refresh"}) = {}

\* C10: with no failed transmit, a pass that sent no group or address level
\* frame ends with exactly one refresh frame, to the first address in cursor
\* order that is present and has a level (none when there is no such address),
\* whether or not it sent group sync or broadcast frames; a pass that sent a
\* group or address level frame sends no refresh frame
C10_FairRefresh ==
    [][ (pc' = "sleep" /\ ops' = ops /\ tx_fail' = 0) =>
            LET sent == { k \in DOMAIN pass_frames' : pass_frames'[k].kind = "refresh" }
                changes == { k \in DOMAIN pass_frames' :
                               pass_frames'[k].kind \in ChangeKinds }
                last == Len(pass_frames')
            IN IF changes = {} /\ Refreshable(state') # {}
               THEN /\ sent = {last}
                    /\ pass_frames'[last] =
                          LET a == NextRefresh(state', PassStart)
                          IN tx_address_power_level("refresh", a, state'.levels[a])
                    /\ next_address_' = (pass_frames'[last].to + 1) % (MAX_ADDR + 1)
               ELSE sent = {} ]_vars

\* a pass with nothing to change refreshed light 5 after the cursor wrapped
\* around from light 10, and the pass before it had refreshed light 10
C10_Witness ==
    /\ pc = "sleep"
    /\ tx_fail = 0
    /\ pass_no >= 3
    /\ ops >= 1
    /\ current_lights = {5, 6, 10}
    /\ pass_frames = << tx_address_power_level("refresh", 5, levels_[5]) >>
    /\ next_address_ = 6
    /\ bus_level[10] = levels_[10]

(***************************************************************************)
(* The thread against a writer that never stops                            *)
(***************************************************************************)
\* the level the busy writer sets for light 10: it alternates between two
BusyLevel == IF levels_[10] = 150 THEN 151 ELSE 150

\* API::receive, T/set, from a writer that starts after the other operations
\* and never stops; it writes between the passes of the thread
BusySetLevel ==
    /\ ops = MaxOps
    /\ pc = "sleep"
    /\ set_level(<<ItNum(10)>>, BusyLevel)
    /\ pass_no' = 0
    /\ UNCHANGED << configVars, ioVars, now, daliVars, busVars, ops, logVars >>

InitBusy ==
    /\ InitWith(BootConfigs)
    /\ boot_rtc_ = "LOADED_OK"
    /\ 10 \in current_lights

NextBusy ==
    \/ \E t \in DaliDimAdjustArgs : DimAdjust(t)
    \/ SetPower("kitchen", TRUE)
    \/ RequestGroupSync("kitchen")
    \/ \E power_on \in BOOLEAN : RequestBroadcast(power_on)
    \/ BusySetLevel
    \/ DaliNext

\* a step of the thread; DaliNext is enabled in every state
ThreadStep == turn' = ~turn

\* the thread is a task that loops over run_tasks forever
SpecBusy == InitBusy /\ [][NextBusy]_vars /\ WF_turn(ThreadStep)

\* C11: no present address whose level differs from tx_levels_ is postponed
\* forever while a writer keeps changing the level of another address: the
\* thread gets its cached level equal to its level again, or sends it a frame
C11_NoStarvation ==
    \A a \in {5, 6} :
        (a \in current_lights /\ levels_[a] # tx_levels_[a])
            ~> \/ a \notin current_lights
               \/ levels_[a] = tx_levels_[a]
               \/ \E k \in DOMAIN step_frames :
                     step_frames[k].kind \in {"address_level", "refresh"}
                        /\ step_frames[k].to = a

(***************************************************************************)
(* Scenario S1: a preset for the lights 0, 1 and 2                         *)
(***************************************************************************)
InitS1 == InitWith(S1Configs)

NextS1 ==
    \/ SelectPreset(<< PName("evening"), <<ItAll>>, FALSE >>)
    \/ NextSwitch

SpecS1 == InitS1 /\ [][NextS1]_vars

\* the only operation since boot is select_preset("evening", "all"), called
\* while the thread slept, and the thread has run the next pass without a
\* failed transmit
S1Selected ==
    /\ ops = 1
    /\ last_op.name = "select_preset"
    /\ last_op.pc = "sleep"
    /\ current_lights = {0, 1, 2}
    /\ levels_[0] = 200 /\ levels_[1] = 150 /\ levels_[2] = 100
    /\ pass_no = 1
    /\ pc = "sleep"
    /\ tx_fail = 0

\* C12: in S1 the pass after select_preset sends the three address frames
\* (0x00,200), (0x02,150), (0x04,100), each once, and no other frame; every
\* power-level frame to an address a has the address byte (a << 1) | 0 and a
\* level as data, and goes to a present address
C12_PresetPass ==
    /\ S1Selected =>
          /\ Len(pass_frames) = 3
          /\ \A a \in {0, 1, 2} :
                Cardinality({ k \in DOMAIN pass_frames :
                                /\ pass_frames[k].kind = "address_level"
                                /\ pass_frames[k].address = 2 * a
                                /\ pass_frames[k].data = levels_[a]
                                /\ ~pass_frames[k].repeat }) = 1
    /\ \A k \in DOMAIN step_frames :
          step_frames[k].kind \in {"address_level", "refresh"} =>
             /\ step_frames[k].address = 2 * step_frames[k].to
             /\ step_frames[k].to \in current_lights
             /\ step_frames[k].data # LEVEL_NO_CHANGE

\* scenario S1 has run: the bus carried the three levels
C12_Witness ==
    /\ S1Selected
    /\ bus_level[0] = 200 /\ bus_level[1] = 150 /\ bus_level[2] = 100
    /\ active_presets_[0] = "evening"

(***************************************************************************)
(* Presets, levels and the idle window                                     *)
(***************************************************************************)
\* select_preset(name, light_ids, internal): presets that exist and that do
\* not, with and without the modifier idle
IdlePresetArgs ==
    { << PName("evening"), <<ItAll>>, FALSE >>,
      << PName("evening"), <<ItIdle, ItAll>>, FALSE >>,
      << PIndex(3), <<ItIdle, ItName("kitchen")>>, TRUE >>,
      << PName("nightlight"), <<ItIdle, ItAll>>, FALSE >>,
      << PName("nightlight"), <<ItNum(5)>>, FALSE >> }

\* set_level(light_ids, level)
IdleSetLevelArgs ==
    { << <<ItName("kitchen")>>, 120 >>, << <<ItIdle, ItName("hall")>>, 120 >>,
      << <<ItNum(5)>>, 300 >> }

NextIdle ==
    \/ \E t \in IdlePresetArgs : SelectPreset(t)
    \/ \E t \in IdleSetLevelArgs : SetLevel(t)
    \/ \E t \in DimAdjustArgs : DimAdjust(t)
    \/ Tick

SpecIdle == Init /\ [][NextIdle]_vars

\* the step is a call of select_preset
SelectPresetCall ==
    /\ ops' = ops + 1
    /\ last_op'.name \in {"select_preset", "select_preset_ignored"}

\* the step is a call of select_preset with idle in the light spec, not
\* internal, less than 10 s after the last activity
NotIdleCall ==
    /\ SelectPresetCall
    /\ last_op'.call.idle_only
    /\ ~last_op'.call.internal
    /\ now - last_activity_us_ < IDLE_S

\* the call changed no level, active preset, group level or timestamp, and sent
\* the report that it was ignored
IgnoredNotIdle ==
    /\ UNCHANGED << levels_, active_presets_, group_levels_, group_level_addresses_,
                    broadcast_level_, last_activity_us_, rtcVars >>
    /\ Len(last_op'.call.report) = 2
    /\ last_op'.call.report[2] = " (ignored - not idle)"

\* C13 as stated: every such call is ignored with the report
C13_Original == [][NotIdleCall => IgnoredNotIdle]_vars

\* C13: a call of select_preset for a preset that exists, with idle in the
\* light spec and internal = false, made less than 10 s after the last
\* activity, changes no level, active preset, group level or timestamp and
\* sends the report "ignored - not idle"; a call for a preset that does not
\* exist changes nothing either
C13_NotIdleIgnored ==
    [][NotIdleCall =>
          /\ last_op'.call.found => IgnoredNotIdle
          /\ UNCHANGED << levels_, active_presets_, group_levels_,
                          group_level_addresses_, broadcast_level_, last_activity_us_,
                          rtcVars >>]_vars

\* the preset evening was asked for the idle lights right after a level was set
C13_Witness ==
    /\ last_op.name = "select_preset_ignored"
    /\ last_op.call.report = << "evening", " (ignored - not idle)" >>
    /\ levels_[5] = 120
    /\ last_activity_us_ = now

\* the levels of the presets of the configuration, and of the preset off
PresetLevel(name, a) ==
    IF name = BUILTIN_PRESET_OFF THEN 0
    ELSE CASE name = "evening" /\ a \in {0, 5} -> 200
           [] name = "evening" /\ a \in {1, 6} -> 150
           [] name = "evening" /\ a \in {2, 11} -> 100
           [] OTHER -> LEVEL_NO_CHANGE

\* the addresses a call of select_preset is to write: named by the light
\* spec, present, and with a level in the preset
PresetTargets ==
    { a \in last_op'.lights \cap current_lights :
        PresetLevel(last_op'.call.preset, a) # LEVEL_NO_CHANGE }

\* the call wrote the levels of the preset and its name for the targets
PresetApplied ==
    /\ last_op'.name = "select_preset"
    /\ \A a \in PresetTargets :
          /\ levels_'[a] = PresetLevel(last_op'.call.preset, a)
          /\ active_presets_'[a] = last_op'.call.preset

\* C14: a call of select_preset with idle in the light spec, for a preset
\* that exists, made 10 s or more after the last activity, is applied as a
\* call without idle is, and leaves last_activity_us as it was: the lights
\* are still idle after it
C14_IdleCallNoActivity ==
    [][(/\ SelectPresetCall
        /\ last_op'.call.idle_only
        /\ last_op'.call.found
        /\ now - last_activity_us_ >= IDLE_S)
          => /\ PresetApplied
             /\ last_activity_us_' = last_activity_us_
             /\ now' - last_activity_us_' >= IDLE_S]_vars

\* the preset evening was applied to the idle lights, and the level set for
\* the idle lights of the hall after it was applied too
C14_Witness ==
    /\ last_op.name = "set_level"
    /\ last_op.call.idle_only
    /\ active_presets_[5] = "evening"
    /\ levels_[5] = 200
    /\ levels_[10] = 120
    /\ ops = 2

\* the step is a call of set_level, of dim_adjust, or of select_preset
\* without idle in the light spec
ActivityCall ==
    /\ ops' = ops + 1
    /\ \/ last_op'.name \in {"set_level", "set_level_ignored"}
       \/ last_op'.name \in {"dim_adjust_group", "dim_adjust_individual",
                              "dim_adjust_ignored"}
       \/ SelectPresetCall /\ ~last_op'.call.idle_only

\* the call was turned down: an unknown preset, a level or a change out of
\* range, a set_level for the idle lights while the lights are not idle
TurnedDown ==
    last_op'.name \in {"select_preset_ignored", "set_level_ignored", "dim_adjust_ignored"}

Refreshed ==
    /\ last_activity_us_' = now'
    /\ now' - last_activity_us_' < IDLE_S

\* C15 as stated: every such call refreshes last_activity_us
C15_Original == [][ActivityCall => Refreshed]_vars

\* C15: every call of select_preset without idle, of set_level and of
\* dim_adjust that is not turned down sets last_activity_us to the current
\* time, and the lights are not idle after it; a call that is turned down
\* leaves last_activity_us as it was
C15_ActivityRefreshes ==
    [][ActivityCall =>
          IF TurnedDown THEN last_activity_us_' = last_activity_us_ ELSE Refreshed]_vars

\* a preset was selected without idle after the lights had become idle
C15_Witness ==
    /\ last_op.name = "select_preset"
    /\ ~last_op.call.idle_only
    /\ now = IDLE_S
    /\ last_activity_us_ = now

\* C16: a call of select_preset that is applied writes level[a] = preset[a]
\* and active_preset[a] = name for the addresses that the light spec names,
\* that are present and that have a level in the preset, and for no other
\* address: the level of every other address is unchanged and its active
\* preset is not set to the name
C16_PresetFrame ==
    [][(SelectPresetCall /\ last_op'.name = "select_preset") =>
          /\ PresetApplied
          /\ last_op'.written = PresetTargets
          /\ \A b \in Addr \ PresetTargets :
                /\ levels_'[b] = levels_[b]
                /\ active_presets_'[b] \in {active_presets_[b], ""}]_vars

\* the preset evening was applied to all the lights: 5 and 6 have its levels,
\* and 10, for which it has none, kept the level that was set
C16_Witness ==
    /\ last_op.name = "select_preset"
    /\ last_op.written = {5, 6}
    /\ levels_[5] = 200 /\ levels_[6] = 150 /\ levels_[10] = 120
    /\ active_presets_[10] = RESERVED_PRESET_CUSTOM

(***************************************************************************)
(* Dimmers                                                                 *)
(***************************************************************************)
\* dim_adjust(mode, groups, level): changes up and down, changes that reach
\* the ends of the range, groups with a member in common
DimArgs ==
    { << "GROUP", <<"kitchen">>, 20 >>, << "GROUP", <<"kitchen">>, -20 >>,
      << "GROUP", <<"hall">>, -250 >>, << "GROUP", <<"kitchen", "hall">>, 20 >>,
      << "GROUP", <<BUILTIN_GROUP_ALL>>, -20 >>,
      << "INDIVIDUAL", <<"kitchen">>, 200 >>, << "INDIVIDUAL", <<"hall">>, -20 >>,
      << "INDIVIDUAL", <<"kitchen">>, -300 >> }

\* set_level(light_ids, level): a level that makes the sum of a group odd
DimSetLevelArgs == { << <<ItNum(5)>>, 101 >> }

NextDim ==
    \/ \E t \in DimSetLevelArgs : SetLevel(t)
    \/ \E t \in DimArgs : DimAdjust(t)

SpecDim == Init /\ [][NextDim]_vars

\* clamp(x, 0, 254)
Clamped(x) == IF x < 0 THEN 0 ELSE IF x > 254 THEN 254 ELSE x

\* the members of the group g that are present, and those of them with a level
GroupMembers(g) == groups_by_id[g] \cap current_lights
GroupKnown(g) == { a \in GroupMembers(g) : levels_[a] # LEVEL_NO_CHANGE }

\* the mean of the levels of the set S, rounded down for a change up and up
\* for a change down
RoundedMean(S, delta) ==
    LET n == Cardinality(S)
        sum == SumLevels(levels_, S)
        down == CHOOSE m \in 0 .. 255 : m * n <= sum /\ sum < (m + 1) * n
    IN IF delta >= 0 \/ down * n = sum THEN down ELSE down + 1

\* the step is a call of dim_adjust in group mode for groups
GroupDimCall ==
    /\ ops' = ops + 1
    /\ last_op'.name = "dim_adjust_group"
    /\ ~last_op'.call.all

\* the group g has the level the claim gives, and every member has it and is
\* in group_level_addresses_
GroupDimmed(g) ==
    /\ GroupKnown(g) # {} =>
          group_levels_'[g] =
             Clamped(RoundedMean(GroupKnown(g), last_op'.call.delta) + last_op'.call.delta)
    /\ \A a \in GroupMembers(g) :
          /\ a \in group_level_addresses_'
          /\ levels_'[a] = group_levels_'[g]

\* S2: kitchen has the id 3 and the members 5 and 6 at 100 and 120, and the
\* change is +20
S2Call ==
    /\ GroupDimCall
    /\ last_op'.call.groups = {3}
    /\ last_op'.call.delta = 20
    /\ GroupMembers(3) = {5, 6}
    /\ levels_[5] = 100 /\ levels_[6] = 120

\* C17: dim_adjust in group mode gives every selected group g the level
\* clamp(mean + delta, 0, 254), mean being the mean of the levels other than
\* 255 of the present members of g, rounded down for a change up and up for a
\* change down; every member of g is in group_level_addresses_ and has the
\* level of the group. In S2 the group 3 and the lights 5 and 6 get 130.
C17_GroupDim ==
    [][/\ GroupDimCall => \A g \in last_op'.call.groups : GroupDimmed(g)
       /\ S2Call => /\ group_levels_'[3] = 130
                    /\ levels_'[5] = 130 /\ levels_'[6] = 130]_vars

\* the step is a call of dim_adjust in individual mode
IndividualDimCall ==
    /\ ops' = ops + 1
    /\ last_op'.name = "dim_adjust_individual"

\* the call left no addressed address in group_level_addresses_, and broke up
\* every group with a group level that has an addressed member: the group has
\* no level and none of its members is in group_level_addresses_
GroupsCleared ==
    /\ last_op'.lights \cap group_level_addresses_' = {}
    /\ \A g \in Group :
          GroupMembers(g) \cap last_op'.lights # {} =>
             /\ group_levels_'[g] = LEVEL_NO_CHANGE
             /\ group_levels_[g] # LEVEL_NO_CHANGE =>
                   GroupMembers(g) \cap group_level_addresses_' = {}

LevelsInRange == \A a \in Addr : levels_'[a] \in 0 .. 254 \cup {LEVEL_NO_CHANGE}

\* C18 as stated: every addressed address gets clamp(level + delta, 0, 254)
C18_Original ==
    [][IndividualDimCall =>
          /\ \A a \in last_op'.lights :
                levels_'[a] = Clamped(levels_[a] + last_op'.call.delta)
          /\ GroupsCleared
          /\ LevelsInRange]_vars

\* C18: dim_adjust in individual mode sets level[a] = clamp(level[a] + delta,
\* 0, 254) for every addressed address a with a level other than 255 and
\* leaves every other level as it was; no addressed address is left in
\* group_level_addresses_ and every group with an addressed member is broken
\* up; every level is in 0..254 or is 255
C18_IndividualDim ==
    [][IndividualDimCall =>
          /\ \A a \in Addr :
                levels_'[a] =
                   IF a \in last_op'.lights /\ levels_[a] # LEVEL_NO_CHANGE
                   THEN Clamped(levels_[a] + last_op'.call.delta)
                   ELSE levels_[a]
          /\ GroupsCleared
          /\ LevelsInRange]_vars

\* the kitchen, dimmed as a group, was dimmed light by light up to the end of
\* the range
C18_Witness ==
    /\ last_op.name = "dim_adjust_individual"
    /\ last_op.call.delta = 200
    /\ level_log[5] = << 100, 130, 254 >>
    /\ levels_[5] = 254 /\ levels_[6] = 254
    /\ group_level_addresses_ = {}
    /\ \A g \in Group : group_levels_[g] = LEVEL_NO_CHANGE

(***************************************************************************)
(* RTC memory across a reboot                                              *)
(***************************************************************************)
\* the words with one bit of the levels flipped
FlipBit(words, bit) ==
    LET k == bit \div 8
        j == bit % 8
        v == words[k \div 4][k % 4]
    IN [words EXCEPT ![k \div 4][k % 4] =
           IF (v \div 2 ^ j) % 2 = 1 THEN v - 2 ^ j ELSE v + 2 ^ j]

\* the bits that are flipped: the bits of the levels of two lights, and bits
\* of rtc_crc_, which follow the levels
FlipBits ==
    { 8 * a + j : a \in {5, 63}, j \in 0 .. 7 }
        \cup { 8 * num_addresses + j : j \in {0, 16, 31} }

\* a bit of RTC memory changes while rtc_crc_ matches rtc_levels_
RtcFlip(bit) ==
    /\ rtc_crc_ok
    /\ LET crc == rtc_crc(rtc_levels_)
           in_levels == bit < 8 * num_addresses
           words == IF in_levels THEN FlipBit(rtc_levels_, bit) ELSE rtc_levels_
           flipped_crc == IF in_levels THEN crc ELSE Xor(crc, {bit - 8 * num_addresses})
       IN /\ rtc_levels_' = words
          /\ rtc_crc_ok' = (flipped_crc = rtc_crc(words))
    /\ last_op' = Op("rtc_flip", {}, {}, {})
    /\ UNCHANGED << configVars, ioVars, lightVars, now, daliVars, busVars, ops, pass_no,
                    logVars >>

\* a reset: the configuration is read from the file, Lights and Dali are
\* constructed again and setup() loads the levels from RTC memory
Boot(power_on) ==
    /\ CountOp
    /\ \E partial \in PartialConfigs(saved_config) :
          LET r == read_config(partial)
              data == IF r.ok THEN r.data ELSE ConfigData({}, << >>, NoGroups)
          IN /\ load_config([r EXCEPT !.ok = TRUE, !.data = data])
             /\ last_saved_' = data
             /\ saved_' = r.ok
             /\ save_data' = data
    /\ dirty_' = FALSE
    /\ save_pc' = "idle"
    /\ LET r == load_rtc_state(power_on, rtc_levels_, rtc_crc_ok)
       IN /\ levels_' = r.levels
          /\ boot_rtc_' = r.status
    /\ group_levels_' = [g \in Group |-> LEVEL_NO_CHANGE]
    /\ broadcast_level_' = LEVEL_NO_CHANGE
    /\ group_level_addresses_' = {}
    /\ group_sync_' = {}
    /\ force_refresh_' = {}
    /\ force_refresh_count_' = [a \in Addr |-> 0]
    /\ broadcast_power_on_level_' = FALSE
    /\ broadcast_system_failure_level_' = FALSE
    /\ power_on_' = {}
    /\ power_known_' = {}
    /\ active_presets_' = [a \in Addr |-> RESERVED_PRESET_UNKNOWN]
    /\ last_activity_us_' = 0
    /\ now' = 0
    /\ tx_levels_' = NoChangeLevels
    /\ tx_group_levels_' = [g \in Group |-> LEVEL_NO_CHANGE]
    /\ next_address_' = 0
    /\ next_group_' = 0
    /\ pc' = "sleep"
    /\ loop_i' = 0
    /\ state' = EmptyState
    /\ changed' = FALSE
    /\ refresh' = TRUE
    /\ count' = 0
    /\ mqtt_connected' = FALSE
    /\ message_queue_' = << >>
    /\ dropped_messages_' = 0
    /\ oversized_messages_' = 0
    /\ maximum_queue_size_' = 0
    /\ startup_complete_' = FALSE
    /\ last_op' = Op(IF power_on THEN "boot_power_on" ELSE "boot", {}, {}, {})
    /\ LogLevels
    /\ LET r == switches_load_rtc_state(power_on, switch_rtc_states_, switch_rtc_crc_ok)
       IN /\ switch_active' = r.active
          /\ using_rtc_state_' = r.using
    /\ debounce_first' = [i \in Switch |-> TRUE]
    /\ switch_rtc_crc_ok' = (~power_on /\ switch_rtc_crc_ok)
    /\ UNCHANGED << switch_rtc_states_, switch_call, switch_no >>
    /\ encoder' = NewEncoder
    /\ enc_obs' = NoEdges
    /\ dimmer_state_' = 0
    /\ dim_obs' = NoReads
    /\ UNCHANGED << dimmers, lockVars >>
    /\ UNCHANGED << presets, ordered, rtcVars, busVars, publish_no, mqtt_sent, loops,
                    connects, pings, echoes >>

\* set_level(light_ids, level): the ends of the range, one light and all
RtcSetLevelArgs ==
    { << <<ItAll>>, 254 >>, << <<ItNum(5)>>, 0 >>, << <<ItName("kitchen")>>, 85 >> }

NextRtc ==
    \/ \E t \in RtcSetLevelArgs : SetLevel(t)
    \/ \E bit \in FlipBits : RtcFlip(bit)
    \/ \E power_on \in BOOLEAN : Boot(power_on)

SpecRtc == Init /\ [][NextRtc]_vars

\* C19: a boot that is not a first power-on, right after set_level has saved
\* the levels, restores every level as it was and reports LOADED_OK; the same
\* boot right after a bit of the saved levels or of rtc_crc_ was flipped
\* loads no level and reports CHECKSUM_MISMATCH; a boot at first power-on
\* loads no level whatever RTC memory holds
C19_RtcRoundTrip ==
    [][(ops' = ops + 1 /\ last_op'.name \in {"boot", "boot_power_on"}) =>
          /\ (last_op'.name = "boot" /\ last_op.name = "set_level"
                  /\ last_op.written # {})
                => levels_' = levels_ /\ boot_rtc_' = "LOADED_OK"
          /\ (last_op'.name = "boot" /\ last_op.name = "rtc_flip")
                => levels_' = NoChangeLevels /\ boot_rtc_' = "CHECKSUM_MISMATCH"
          /\ last_op'.name = "boot_power_on"
                => levels_' = NoChangeLevels /\ boot_rtc_' = "POWER_ON_IGNORED"]_vars

\* the levels set were restored by a boot
C19_Witness ==
    /\ last_op.name = "boot"
    /\ ops = 2
    /\ boot_rtc_ = "LOADED_OK"
    /\ levels_[5] = 85 /\ levels_[6] = 85
    /\ UnpackLevels(rtc_levels_) = levels_

(***************************************************************************)
(* Groups and their ids                                                    *)
(***************************************************************************)
InitGroups == InitWith(GroupConfigs) /\ boot_rtc_ = "LOADED_OK"

\* payloads for a group: none, two addresses, and one byte that is no address
GroupsPayloads == GroupPayloads \cup { << 200 >> }

NextGroups ==
    \/ \E name \in {"kitchen", "porch", "g15"}, payload \in GroupsPayloads :
          ApiGroup(name, payload)
    \/ SaveConfig
    \/ ApiReload

SpecGroups == InitGroups /\ [][NextGroups]_vars

GroupIds(gbn) == { gbn[n].id : n \in DOMAIN gbn }

\* a call of set_group_addresses has returned
GroupCall == ops' = ops + 1 /\ last_op'.name = "group"

\* the groups as set_addresses hands them to assign_group_ids when it creates
\* the group name
WithCreated(name) ==
    [n \in DOMAIN groups_by_name \cup {name} |->
        IF n = name THEN [id |-> GROUP_NONE, addresses |-> groups_by_name'[name].addresses]
        ELSE groups_by_name[n]]

\* C21 as stated: after a call of set_group_addresses the ids in use are the
\* lowest |groups| integers
C21_Original ==
    last_op.name = "group" =>
        GroupIds(groups_by_name) = 0 .. Cardinality(DOMAIN groups_by_name) - 1

\* C21: a call of set_group_addresses leaves every group the id it had, gives
\* a group it creates the lowest id no group has, leaves the ids distinct and
\* below 16, and does so whatever the iteration order of the container is
C21_GroupIdAssignment ==
    [][GroupCall =>
        /\ \A n \in DOMAIN groups_by_name :
              /\ n \in DOMAIN groups_by_name'
              /\ groups_by_name'[n].id = groups_by_name[n].id
        /\ \A n \in DOMAIN groups_by_name' \ DOMAIN groups_by_name :
              /\ groups_by_name'[n].id \in Group \ GroupIds(groups_by_name)
              /\ \A i \in Group \ GroupIds(groups_by_name) : groups_by_name'[n].id <= i
              /\ \A order \in Orders(DOMAIN groups_by_name') :
                    assign_group_ids(WithCreated(n), order).gbn = groups_by_name'
        /\ GroupIds(groups_by_name') \subseteq Group
        /\ Cardinality(GroupIds(groups_by_name')) = Cardinality(DOMAIN groups_by_name')
      ]_vars

\* porch was deleted and g15 was created with the id porch had, below the
\* id 3 that stays in use
C21_Witness ==
    /\ last_op.name = "group"
    /\ DOMAIN groups_by_name = {"kitchen", "hall", "g15"}
    /\ 3 \in GroupIds(groups_by_name)
    /\ groups_by_name["g15"].id \in {0, 1}

\* the members stored for the group n, none for a group that does not exist
MembershipOf(gbn, n) == IF n \in DOMAIN gbn THEN gbn[n].addresses ELSE {}

\* the groups whose stored members a step changes
ChangedGroups ==
    { n \in DOMAIN groups_by_name \cup DOMAIN groups_by_name' :
        MembershipOf(groups_by_name, n) # MembershipOf(groups_by_name', n) }

\* set_group_addresses returns true exactly when the stored members changed
ResultIffChanged == last_op'.call.changed <=> ChangedGroups # {}

\* C22: set_group_addresses returns true exactly when the stored members of
\* the group changed, and when it returns true a sync of the group is
\* requested: its id is in group_sync_ once the message has been handled
C22_ChangedThenSync ==
    [][GroupCall =>
        /\ ResultIffChanged
        /\ last_op'.call.changed =>
              \A n \in ChangedGroups : groups_by_name'[n].id \in group_sync_'
      ]_vars

(***************************************************************************)
(* The text of a light spec                                                *)
(***************************************************************************)
\* items of a light spec: all, idle, names, numbers and ranges, and texts
\* that are none of these
ItemTexts ==
    { Spelling[BUILTIN_GROUP_ALL], Spelling[BUILTIN_GROUP_IDLE], Spelling["kitchen"],
      << "5" >>, << "+", "3" >>, << "7", "-", "9" >>, << "6", "3" >>, << "6", "4" >>,
      << "9", "-", "7" >>, << "6", "0", "-", "6", "4" >>, << "5", "-" >>, << "-", "5" >>,
      << "1", "-", "-", "3" >>, << "6", "x" >>, << "x" >>, << " " >>, << >>, << "+" >> }

RECURSIVE Texts(_)
Texts(n) ==
    IF n = 0 THEN { << >> }
    ELSE ItemTexts \cup { t \o << "," >> \o i : t \in Texts(n - 1), i \in ItemTexts }

LightTexts == Texts(MaxItems)

\* API::receive, T/set/<light spec> with the level 100, as the first message
SetLevelText(text) ==
    /\ ops = 0
    /\ SetLevel(<< LightItems(text), 100 >>)

NextParse == \E text \in LightTexts : SetLevelText(text)

SpecParse == Init /\ [][NextParse]_vars

\* the grammar of an item: a number is digits, with or without a '+' before
NumberText(text) ==
    LET u == IF text # << >> /\ Head(text) = "+" THEN Tail(text) ELSE text
    IN u # << >> /\ \A i \in DOMAIN u : IsDigit(u[i])
NumberOf(text) == Digits(IF Head(text) = "+" THEN Tail(text) ELSE text, 0).value

\* the lights an item of the grammar stands for; none for any other text
Meaning(item) ==
    LET dash == Find(item, "-")
        first == SubSeq(item, 1, dash - 1)
        second == SubSeq(item, dash + 1, Len(item))
    IN IF item = Spelling[BUILTIN_GROUP_ALL] THEN Addr
       ELSE IF \E n \in DOMAIN groups_by_name : n \in DOMAIN Spelling /\ Spelling[n] = item
       THEN UNION { groups_by_name[n].addresses :
                      n \in { m \in DOMAIN groups_by_name \cap DOMAIN Spelling :
                                Spelling[m] = item } }
       ELSE IF NumberText(item)
       THEN { NumberOf(item) } \cap Addr
       ELSE IF dash > 0 /\ NumberText(first) /\ NumberText(second)
               /\ NumberOf(first) <= NumberOf(second) /\ NumberOf(second) \in Addr
       THEN NumberOf(first) .. NumberOf(second)
       ELSE {}

\* C23: for every text, parse_light_ids returns a set of addresses in 0..63,
\* all of them if one of the items is `all`, and otherwise the lights of the
\* items that are of the grammar: an item that is not is ignored, the others
\* still apply
C23_ParseLightIds ==
    \A text \in LightTexts :
        LET lights == parse_light_ids(LightItems(text)).lights
            items == GetLines(text)
        IN /\ lights \subseteq Addr
           /\ (\E i \in DOMAIN items : items[i] = Spelling[BUILTIN_GROUP_ALL]) =>
                 lights = Addr
           /\ lights = UNION { Meaning(items[i]) : i \in DOMAIN items }

(***************************************************************************)
(* The configuration file and its backup                                   *)
(***************************************************************************)
\* a save that fails: while the file is written, which is then cut short, or
\* while the backup file is written.  save_config takes the configuration as
\* saved either way and does not try again.
SaveConfigFails(stage) ==
    /\ save_pc = "idle"
    /\ ~save_not_needed
    /\ CurrentConfig # last_saved_
    /\ saved_config' = CurrentConfig
    /\ file_form' = IF stage = "primary" THEN [file_form EXCEPT !.primary = "truncated"]
                    ELSE [primary |-> "valid", backup |-> "truncated"]
    /\ dirty_' = FALSE
    /\ save_data' = CurrentConfig
    /\ last_saved_' = CurrentConfig
    /\ saved_' = TRUE
    /\ UNCHANGED << backup_config, config_saved, save_pc >>
    /\ UNCHANGED << configVars, netVars, switchVars, lightVars, rtcVars, now,
                    daliVars, busVars, opVars, logVars >>

\* the flash loses or damages the file: it is gone, it is cut short, or a
\* byte of it changes so that it is well-formed CBOR and no configuration
CorruptFile(form) ==
    /\ file_form.primary = "valid"
    /\ file_form' = [file_form EXCEPT !.primary = form]
    /\ UNCHANGED << saved_config, backup_config, config_saved, saveVars >>
    /\ UNCHANGED << configVars, netVars, switchVars, lightVars, rtcVars, now,
                    daliVars, busVars, opVars, logVars >>

NextFile ==
    \/ \E payload \in GroupPayloads : ApiGroup("kitchen", payload)
    \/ SaveConfig
    \/ \E stage \in {"primary", "backup"} : SaveConfigFails(stage)
    \/ \E form \in {"absent", "truncated", "invalid"} : CorruptFile(form)
    \/ ApiReload
    \/ \E power_on \in BOOLEAN : Boot(power_on)

SpecFile == Init /\ [][NextFile]_vars

\* the configuration is loaded: at boot, or for T/reload
LoadCall == ops' = ops + 1 /\ last_op'.name \in {"reload", "boot", "boot_power_on"}

\* the file does not read or parse, and the backup file does
PrimaryFails == file_form.primary # "valid" /\ file_form.backup = "valid"

\* C24: when the configuration is loaded and the file fails to read or parse,
\* the backup file is what is loaded, the file is written from it, and the
\* configuration in memory is the one that was last saved successfully
C24_BackupLoad ==
    [][LoadCall /\ PrimaryFails =>
        /\ CurrentConfig' = backup_config
        /\ saved_config' = backup_config /\ file_form'.primary = "valid"
        /\ CurrentConfig' = config_saved
      ]_vars

(***************************************************************************)
(* The queue of messages for the broker                                    *)
(***************************************************************************)
\* Network::publish, called by a thread with a topic and a payload of these
\* lengths
Publish(topic_len, payload_len) ==
    /\ publish_no < MaxPublish
    /\ publish_no' = publish_no + 1
    /\ IF message_write(topic_len, payload_len)
       THEN /\ message_queue_' =
                  publish(message_queue_, Message(<< "report" >>, FALSE, publish_no + 1))
            /\ maximum_queue_size_' = Max(maximum_queue_size_, Len(message_queue_'))
            /\ UNCHANGED oversized_messages_
       ELSE /\ oversized_messages_' = oversized_messages_ + 1
            /\ UNCHANGED << message_queue_, maximum_queue_size_ >>
    /\ UNCHANGED << mqtt_connected, dropped_messages_, startup_complete_, mqtt_sent,
                    loops, connects, pings, echoes >>
    /\ UNCHANGED << configVars, fileVars, switchVars, saveVars, lightVars, rtcVars, now,
                    daliVars, busVars, opVars, logVars >>

\* Network::loop, with WiFi and the broker reachable or not: it connects when
\* it is not connected, which calls API::connected, and it sends a share of
\* the queue and the counters that are not zero
NetworkLoop(up) ==
    /\ loops < MaxLoops
    /\ loops' = loops + 1
    /\ mqtt_connected' = up
    /\ LET connect == up /\ ~mqtt_connected
           queue == IF connect
                    THEN publish_all(message_queue_, connected_topics, FALSE, publish_no)
                    ELSE message_queue_
           n == IF up THEN send_count(queue) ELSE 0
           dropped == IF dropped_messages_ # 0
                      THEN << Stats("dropped_messages", dropped_messages_) >> ELSE << >>
           oversized == IF oversized_messages_ # 0
                        THEN << Stats("oversized_messages", oversized_messages_) >>
                        ELSE << >>
       IN /\ message_queue_' = SubSeq(queue, n + 1, Len(queue))
          /\ maximum_queue_size_' = Max(maximum_queue_size_, Len(queue))
          /\ publish_no' = publish_no + (IF connect THEN Len(connected_topics) ELSE 0)
          /\ startup_complete_' = (~connect /\ startup_complete_)
          /\ connects' = connects + (IF connect THEN 1 ELSE 0)
          /\ pings' = IF connect THEN 0 ELSE pings
          /\ echoes' = IF connect THEN 0 ELSE echoes
          /\ mqtt_sent' = IF up THEN dropped \o oversized \o SubSeq(queue, 1, n)
                          ELSE << >>
          /\ dropped_messages_' = IF up THEN 0 ELSE dropped_messages_
          /\ oversized_messages_' = IF up THEN 0 ELSE oversized_messages_
    /\ UNCHANGED << configVars, fileVars, switchVars, saveVars, lightVars, rtcVars, now,
                    daliVars, busVars, opVars, logVars >>

\* the lengths of a topic, and of payloads that fit and of one that does not
TopicLens == { 20 }
PayloadLens(topic_len) == { 0, BUFFER_SIZE - topic_len - 1, BUFFER_SIZE - topic_len }

\* the messages queued while the broker could not be reached, before the start
Backlogs == { 0, MAX_QUEUED_MESSAGES - 2 }

InitNet == \E queued \in Backlogs : InitQueued(BootConfigs, queued)

NextNet ==
    \/ \E topic_len \in TopicLens : \E payload_len \in PayloadLens(topic_len) :
          Publish(topic_len, payload_len)
    \/ \E up \in BOOLEAN : NetworkLoop(up)

SpecNet == InitNet /\ [][NextNet]_vars

\* a call of Network::publish with a message that fits
PublishFits ==
    /\ publish_no' = publish_no + 1
    /\ loops' = loops
    /\ oversized_messages_' = oversized_messages_

QueueFull == Len(message_queue_) >= MAX_QUEUED_MESSAGES

QueueBounded == Len(message_queue_) <= MAX_QUEUED_MESSAGES

\* a publish to a full queue drops the oldest message and queues the new one
DropsOldest ==
    [][PublishFits /\ QueueFull =>
        message_queue_' = Append(Tail(message_queue_),
                                 Message(<< "report" >>, FALSE, publish_no'))
      ]_vars

\* C25: the queue never holds more than 1000 messages; a publish to a full
\* queue drops the oldest message, queues the new one and counts the drop; and
\* the pass of Network::loop that sends again publishes the count of drops
C25_DropCounted ==
    [][/\ Len(message_queue_') <= MAX_QUEUED_MESSAGES
       /\ (PublishFits /\ QueueFull =>
              /\ message_queue_' = Append(Tail(message_queue_),
                                          Message(<< "report" >>, FALSE, publish_no'))
              /\ dropped_messages_' = dropped_messages_ + 1)
       /\ (loops' = loops + 1 /\ mqtt_connected' /\ dropped_messages_ # 0 =>
              /\ Stats("dropped_messages", dropped_messages_) \in Range(mqtt_sent')
              /\ dropped_messages_' = 0)
      ]_vars

(***************************************************************************)
(* The configuration echo after a connect                                  *)
(***************************************************************************)
\* API::receive, T/startup_complete: whether the message is acted on
startup_pending_always == TRUE
startup_pending == ~startup_complete_

\* API::receive, T/startup_complete
ApiStartupComplete ==
    /\ mqtt_connected
    /\ save_pc = "idle"
    /\ pings < MaxPings
    /\ pings' = pings + 1
    /\ IF startup_pending
       THEN /\ startup_complete_' = TRUE
            /\ save_config
            /\ \E order \in Orders(DOMAIN groups_by_name) :
                  PublishAll(publish_config(order), TRUE)
            /\ echoes' = echoes + 1
       ELSE UNCHANGED << startup_complete_, fileVars, saveVars, message_queue_,
                         maximum_queue_size_, publish_no, echoes >>
    /\ UNCHANGED << mqtt_connected, dropped_messages_, oversized_messages_, mqtt_sent,
                    loops, connects >>
    /\ UNCHANGED << configVars, switchVars, lightVars, rtcVars, now, daliVars,
                    busVars, opVars, logVars >>

NextStartup ==
    \/ \E up \in BOOLEAN : NetworkLoop(up)
    \/ ApiStartupComplete
    \/ \E payload \in GroupPayloads : ApiGroup("kitchen", payload)

SpecStartup == Init /\ [][NextStartup]_vars

\* a T/startup_complete message is received
StartupMessage == pings' = pings + 1

\* the configuration is queued for the broker, every message of it retained
EchoQueued ==
    \E order \in Orders(DOMAIN groups_by_name) :
        message_queue_' = publish_all(message_queue_, publish_config(order), TRUE,
                                      publish_no)

\* C27: the first T/startup_complete message received after a connect queues the
\* retained configuration echo, and no later T/startup_complete message of the
\* same connection queues anything: one echo for each connection
C27_EchoOnce ==
    [][StartupMessage =>
        /\ echoes' = 1
        /\ IF pings = 0 THEN EchoQueued ELSE UNCHANGED message_queue_
      ]_vars

\* connected for the second time, the first message has been answered with the
\* echo and another one has been received
C27_Witness ==
    /\ connects = 2
    /\ pings = 2
    /\ echoes = 1
    /\ \E i \in DOMAIN message_queue_ :
          message_queue_[i].topic = << "addresses" >> /\ message_queue_[i].retain

(***************************************************************************)
(* The switches                                                            *)
(***************************************************************************)
\* Switches::run_switch when the Debounce of the switch reports a change to
\* this value: publish_switch, select_preset for a switch with a group and a
\* preset unless the change is ignored, save_rtc_state.  Network::report only
\* logs, as in a build without an IRC channel.
RunSwitch(switch_id, value) ==
    LET group == get_switch_group(switch_id)
        preset == get_switch_preset(switch_id)
        first == debounce_first[switch_id]
        ignore == first /\ using_rtc_state_ /\ switch_active[switch_id] = value
        select == ~ignore /\ group # "" /\ preset # ""
        lights == get_group_addresses_name(group)
        active == [switch_active EXCEPT ![switch_id] = value]
        queued == publish_all(message_queue_,
                              << << "switch", DigitChars[switch_id + 1], "state" >> >>,
                              TRUE, publish_no)
    IN /\ switch_no < MaxSwitch
       /\ debounce_changed(first, switch_active[switch_id], value)
       /\ switch_no' = switch_no + 1
       /\ debounce_first' = [debounce_first EXCEPT ![switch_id] = FALSE]
       /\ switch_active' = active
       /\ switch_rtc_states_' = active
       /\ switch_rtc_crc_ok' = TRUE
       /\ switch_call' = [switch |-> switch_id, first |-> first, value |-> value]
       /\ IF select
          THEN select_preset_and(PName(preset), << ItName(group) >>, TRUE,
                                 set_power_state(lights, value))
          ELSE IF group # "" THEN set_power(lights, value)
          ELSE /\ UNCHANGED << lightVars, rtcVars >>
               /\ last_op' = Op("switch", {}, {}, {})
       /\ message_queue_' = IF group # "" THEN queued ELSE message_queue_
       /\ publish_no' = publish_no + Len(message_queue_') - Len(message_queue_)
       /\ maximum_queue_size_' = Max(maximum_queue_size_, Len(message_queue_'))
       /\ LogLevels
       /\ UNCHANGED << mqtt_connected, dropped_messages_, oversized_messages_,
                       startup_complete_, mqtt_sent, loops, connects, pings, echoes >>
       /\ UNCHANGED << configVars, fileVars, saveVars, using_rtc_state_, now, daliVars,
                       busVars, inputVars,
                       ops, pass_no >>

\* the switches that change: one of each binding
SwitchIds == { 0, 1, 2 }

NextInput ==
    \/ \E switch_id \in SwitchIds, value \in BOOLEAN : RunSwitch(switch_id, value)
    \/ \E power_on \in BOOLEAN : Boot(power_on)

SpecInput == Init /\ [][NextInput]_vars

\* run_switch sees a change of a switch
SwitchChange == switch_no' = switch_no + 1

\* the first stable value of a switch since the boot, which was a cold boot or
\* a warm boot that found valid switch states in RTC memory
InitialValue ==
    /\ switch_call'.first
    /\ (boot_rtc_ = "POWER_ON_IGNORED" \/ using_rtc_state_)

\* the lights of the group the switch is bound to
SwitchLights == get_group_addresses_name(get_switch_group(switch_call'.switch))

\* select_preset is called with the preset and the group of the switch
SwitchPreset ==
    /\ last_op'.name \in { "select_preset", "select_preset_ignored" }
    /\ last_op'.call.internal
    /\ last_op'.lights = SwitchLights
    /\ last_op'.call.preset = get_switch_preset(switch_call'.switch)

\* set_power is called with the lights of the group and the value
SwitchPower ==
    /\ power_known_' = power_known_ \cup SwitchLights
    /\ power_on_' = IF switch_call'.value THEN power_on_ \cup SwitchLights
                    ELSE power_on_ \ SwitchLights

\* C26: the first stable value of a switch after a cold boot, or after a warm
\* boot with valid switch states in RTC memory, causes no select_preset and no
\* force refresh of lights that set_power turns on; every later change calls
\* set_power with the lights of the switch's group and, when the switch has a
\* group and a preset, select_preset(preset, group, internal = true)
C26_InitialValueNoTransition ==
    [][SwitchChange =>
        /\ InitialValue =>
              /\ ~SwitchPreset
              /\ force_refresh_' \subseteq force_refresh_
        /\ ~switch_call'.first /\ get_switch_group(switch_call'.switch) # "" =>
              /\ SwitchPower
              /\ get_switch_preset(switch_call'.switch) # "" => SwitchPreset
      ]_vars

\* the part of it that is about the later changes
LaterChanges ==
    [][SwitchChange /\ ~switch_call'.first
          /\ get_switch_group(switch_call'.switch) # "" =>
        /\ SwitchPower
        /\ get_switch_preset(switch_call'.switch) # "" => SwitchPreset
      ]_vars

\* what the code does with the first stable value after a warm boot with valid
\* switch states: no select_preset when the value is the saved one
WarmBootSameValue ==
    [][SwitchChange /\ switch_call'.first /\ using_rtc_state_
          /\ switch_active[switch_call'.switch] = switch_call'.value =>
        ~SwitchPreset
      ]_vars

(***************************************************************************)
(* Group sync                                                              *)
(***************************************************************************)
\* the frames that add the lights S to the group, in the order of the addresses:
\* a short address and the selector bit, the command, sent twice
RECURSIVE AddFrames(_, _)
AddFrames(S, group) ==
    IF S = {} THEN << >>
    ELSE LET a == CHOOSE x \in S : \A y \in S : x <= y
         IN << Frame("group_add", a, 2 * a + 1, COMMAND_ADD_TO_GROUP + group, TRUE) >>
               \o AddFrames(S \ {a}, group)

\* the frame that removes from the group, sent twice: to the broadcast address,
\* and to the address of the group itself (100, the group, the selector bit)
RemoveBroadcast(group) ==
    Frame("group_empty", group, 255, COMMAND_REMOVE_FROM_GROUP + group, TRUE)
RemoveGroup(group) ==
    Frame("group_empty", group, 128 + 2 * group + 1, COMMAND_REMOVE_FROM_GROUP + group,
          TRUE)

\* the frames end with these
EndsWith(frames, end) ==
    /\ Len(frames) >= Len(end)
    /\ SubSeq(frames, Len(frames) - Len(end) + 1, Len(frames)) = end

\* the frames hold these, one after the other
Holds(frames, part) ==
    \E k \in 0 .. Len(frames) - Len(part) : SubSeq(frames, k + 1, k + Len(part)) = part

\* the thread is about to call completed_group_sync for a group
SyncDone == pc = "sync_ack"
SyncGroup == loop_i - 1

\* C28 as claimed: completed_group_sync(g) is called after a remove-from-group
\* broadcast, sent twice, and one add-to-group frame, sent twice, for each
\* member of g
C28_Original ==
    SyncDone =>
        EndsWith(pass_frames, << RemoveBroadcast(SyncGroup) >>
                                 \o AddFrames(state.group_addresses[SyncGroup], SyncGroup))

\* C28: for a group g that is pending the thread sends a remove-from-group
\* command to the group address of g, sent twice, and then one add-to-group
\* frame, sent twice, for each member of g; completed_group_sync(g) is called,
\* and the flag of g cleared, only when all of these were sent, and the flag
\* stays set otherwise, so that the next pass does the same
C28_GroupSync ==
    [][/\ SyncDone' =>
            /\ SyncGroup' \in state'.group_sync
            /\ EndsWith(pass_frames', << RemoveGroup(SyncGroup') >>
                   \o AddFrames(state'.group_addresses[SyncGroup'], SyncGroup'))
       /\ \A g \in group_sync_ \ group_sync_' : SyncDone /\ g = SyncGroup
       /\ (pc' = "sleep" /\ turn' # turn /\ tx_fail' = 0 =>
              \A g \in state'.group_sync :
                  Holds(pass_frames', << RemoveGroup(g) >>
                                          \o AddFrames(state'.group_addresses[g], g)))
      ]_vars

\* a transmit has failed, and the thread has sent the frames of a group of two
\* lights and is about to call completed_group_sync
C28_Witness ==
    /\ SyncDone
    /\ tx_fail = 1
    /\ Cardinality(state.group_addresses[SyncGroup]) = 2
    /\ pass_frames[Len(pass_frames)].kind = "group_add"

(***************************************************************************)
(* Broadcast programming                                                   *)
(***************************************************************************)
\* the broadcast frames, sent twice: the address byte of all ones with the
\* selector bit, and the command
DtrFrame == Frame("dtr", 127, 255, 33, TRUE)
SetPowerOnFrame == Frame("power_on_level", 127, 255, 45, TRUE)
SetSystemFailureFrame == Frame("system_failure_level", 127, 255, 44, TRUE)

\* where the frames of a pass hold this frame
FramesAt(frames, f) == { k \in DOMAIN frames : frames[k] = f }

\* the frames the thread sends for the flags of a snapshot
BroadcastFrames(st) ==
    << DtrFrame >>
        \o (IF st.broadcast_power_on_level THEN << SetPowerOnFrame >> ELSE << >>)
        \o (IF st.broadcast_system_failure_level THEN << SetSystemFailureFrame >>
            ELSE << >>)

\* in the frames of a pass there is one DTR copy at most, one of each SET frame
\* at most, and every SET frame comes after the DTR copy
DtrOnceAndFirst(frames) ==
    /\ \A f \in { DtrFrame, SetPowerOnFrame, SetSystemFailureFrame } :
          Cardinality(FramesAt(frames, f)) <= 1
    /\ \A f \in { SetPowerOnFrame, SetSystemFailureFrame } :
          \A k \in FramesAt(frames, f) : \E j \in FramesAt(frames, DtrFrame) : j < k

\* C29: in a pass whose snapshot has a broadcast flag set the thread sends the
\* STORE_ACTUAL_LEVEL_IN_DTR broadcast once, for both flags when both are set,
\* and after it the SET_POWER_ON_LEVEL_FROM_DTR and the
\* SET_SYSTEM_FAILURE_LEVEL_FROM_DTR broadcast of the flags that are set; no SET
\* frame is sent without the DTR copy before it in the pass, and a flag is
\* cleared only when its own SET frame was the last frame sent
C29_BroadcastProgramming ==
    [][/\ DtrOnceAndFirst(pass_frames')
       /\ (broadcast_power_on_level_ /\ ~broadcast_power_on_level_' =>
              /\ pc = "power_on_ack"
              /\ EndsWith(pass_frames, << SetPowerOnFrame >>))
       /\ (broadcast_system_failure_level_ /\ ~broadcast_system_failure_level_' =>
              /\ pc = "system_failure_ack"
              /\ EndsWith(pass_frames, << SetSystemFailureFrame >>))
       /\ (/\ pc' = "sleep" /\ turn' # turn /\ tx_fail' = 0
           /\ (state'.broadcast_power_on_level \/ state'.broadcast_system_failure_level)
           => Holds(pass_frames', BroadcastFrames(state')))
      ]_vars

\* both flags were set, and the pass has sent the DTR copy once and both SET
\* frames and has cleared both flags
C29_Witness ==
    /\ pc = "sleep"
    /\ state.broadcast_power_on_level /\ state.broadcast_system_failure_level
    /\ Holds(pass_frames, << DtrFrame, SetPowerOnFrame, SetSystemFailureFrame >>)
    /\ ~broadcast_power_on_level_ /\ ~broadcast_system_failure_level_

(***************************************************************************)
(* Transmits that fail                                                     *)
(***************************************************************************)
\* the frames the thread has tried to send in the current pass
Attempted == { FrameBytes(f) : f \in Range(pass_frames) \cup Range(pass_failed) }

\* a step of the thread in which a transmit failed and no frame was sent
FailedOnly == tx_fail' > tx_fail /\ step_frames' = <<>>

\* the pass ends, and no operation has come since the pass before it began
NextPassEnds == pc' = "sleep" /\ turn' # turn /\ pass_no' >= 2 /\ ops' = ops

\* a transmit that fails leaves the levels the thread believes the bus has, the
\* force refresh counts and the pending flags as they were; the thread clears
\* the cached level of a light or group that has no level without a transmit
FailedKeepsState ==
    [][FailedOnly =>
          /\ \A a \in Addr : tx_levels_'[a] \in { tx_levels_[a], LEVEL_NO_CHANGE }
          /\ \A g \in Group :
                tx_group_levels_'[g] \in { tx_group_levels_[g], LEVEL_NO_CHANGE }
          /\ force_refresh_count_' = force_refresh_count_
          /\ force_refresh_' = force_refresh_
          /\ (pc \in { "sleep", "group_snap", "addr_snap" } =>
                 /\ group_sync_' = group_sync_
                 /\ broadcast_power_on_level_' = broadcast_power_on_level_
                 /\ broadcast_system_failure_level_' = broadcast_system_failure_level_)
      ]_vars

\* a frame of the level loops, of a group sync or of the broadcast programming
\* whose transmit failed is attempted again in the next pass
RetriedUnlessRefresh ==
    [][NextPassEnds =>
          \A k \in DOMAIN last_failed' :
              last_failed'[k].kind # "refresh" =>
                  FrameBytes(last_failed'[k]) \in Attempted'
      ]_vars

\* C30: a transmit that fails changes none of tx_level, tx_group_level,
\* force_refresh_count and the pending flags, and the frame that failed is
\* attempted again in the next pass
C30_FailedTransmitRetried ==
    [][/\ FailedOnly =>
             /\ \A a \in Addr : tx_levels_'[a] \in { tx_levels_[a], LEVEL_NO_CHANGE }
             /\ \A g \in Group :
                   tx_group_levels_'[g] \in { tx_group_levels_[g], LEVEL_NO_CHANGE }
             /\ force_refresh_count_' = force_refresh_count_
       /\ NextPassEnds =>
             \A k \in DOMAIN last_failed' : FrameBytes(last_failed'[k]) \in Attempted'
      ]_vars

(***************************************************************************)
(* The symbols of a frame                                                  *)
(***************************************************************************)
DALI_0 == "0"
DALI_1 == "1"
DALI_STOP_IDLE == "stop"

\* Dali::byte_to_symbols: the bits of the byte, the highest first
byte_to_symbols(value) ==
    [i \in 1 .. 8 |-> IF (value \div (2 ^ (8 - i))) % 2 = 1 THEN DALI_1 ELSE DALI_0]

\* Dali::tx_frame: the symbols handed to rmtWriteBlocking
tx_frame(address, data, repeat) ==
    LET forward == << DALI_1 >> \o byte_to_symbols(address) \o byte_to_symbols(data)
                       \o << DALI_STOP_IDLE >>
    IN IF repeat THEN forward \o forward ELSE forward

\* the commands that change group membership or stored parameters
ConfigCommands ==
    { COMMAND_ADD_TO_GROUP + g : g \in Group }
        \cup { COMMAND_REMOVE_FROM_GROUP + g : g \in Group }
        \cup { COMMAND_STORE_ACTUAL_LEVEL_IN_DTR, COMMAND_SET_POWER_ON_LEVEL_FROM_DTR,
               COMMAND_SET_SYSTEM_FAILURE_LEVEL_FROM_DTR }

\* the selector bit of the address byte says command, and the command is one
\* of them
IsConfigCommand(f) == f.address % 2 = DATA_COMMAND /\ f.data \in ConfigCommands

\* the selector bit of the address byte says power level
IsPowerLevel(f) == f.address % 2 = DATA_POWER_LEVEL

\* C31: every frame the thread sends is a command that changes group
\* membership or stored parameters, and its symbols are the forward frame
\* twice, or it is a power level frame, and its symbols are the forward frame
\* once
C31_RepeatFrames ==
    \A k \in DOMAIN pass_frames :
        LET f == pass_frames[k]
            once == tx_frame(f.address, f.data, FALSE)
            symbols == tx_frame(f.address, f.data, f.repeat)
        IN /\ IsConfigCommand(f) \/ IsPowerLevel(f)
           /\ IsConfigCommand(f) => symbols = once \o once
           /\ IsPowerLevel(f) => symbols = once

\* a pass has sent a power level frame and then the frames of a group sync
C31_Witness ==
    /\ \E k \in DOMAIN pass_frames : IsPowerLevel(pass_frames[k])
    /\ \E k \in DOMAIN pass_frames : pass_frames[k].kind = "group_empty"
    /\ \E k \in DOMAIN pass_frames : pass_frames[k].kind = "group_add"

(***************************************************************************)
(* The save task                                                           *)
(***************************************************************************)
\* the variables the steps of save_config leave alone
saveOthers == << configVars, netVars, switchVars, lightVars, rtcVars, now, daliVars,
                busVars, opVars, logVars >>

\* Config::save_config up to the release of the data lock (lines 1038-1059)
SaveBegin ==
    /\ save_pc = "idle"
    /\ ~save_not_needed
    /\ dirty_' = FALSE
    /\ IF CurrentConfig = last_saved_
       THEN UNCHANGED saveRest
       ELSE /\ save_data' = CurrentConfig
            /\ save_pc' = "primary"
            /\ UNCHANGED << saved_, last_saved_ >>
    /\ UNCHANGED << fileVars, saveOthers >>

\* what a write of a file can come to: the file is written; it cannot be
\* opened, and stays as it was; the write fails after the file was opened
\* for writing, which has emptied it
WriteOutcomes == { "ok", "open", "write" }

\* ConfigFile::write_config(FILENAME), called at line 1070
SaveWritePrimary(outcome) ==
    /\ save_pc = "primary"
    /\ IF outcome = "open" THEN UNCHANGED << saved_config, file_form >>
       ELSE /\ saved_config' = save_data
            /\ file_form' = [file_form EXCEPT
                                !.primary = IF outcome = "ok" THEN "valid" ELSE "truncated"]
    /\ save_pc' = IF outcome = "ok" THEN "reparse" ELSE "finish"
    /\ UNCHANGED << backup_config, config_saved, dirty_, saved_, last_saved_, save_data,
                    saveOthers >>

\* ConfigFile::read_config(FILENAME, false), called at line 1070: the file
\* that was written reads back as well-formed or it does not
SaveReparse(well_formed) ==
    /\ save_pc = "reparse"
    /\ file_form' = IF well_formed THEN file_form
                    ELSE [file_form EXCEPT !.primary = "truncated"]
    /\ save_pc' = IF well_formed THEN "backup" ELSE "finish"
    /\ UNCHANGED << saved_config, backup_config, config_saved, dirty_, saved_,
                    last_saved_, save_data, saveOthers >>

\* ConfigFile::write_config(BACKUP_FILENAME), called at line 1070
SaveWriteBackup(outcome) ==
    /\ save_pc = "backup"
    /\ IF outcome = "open" THEN UNCHANGED << backup_config, file_form >>
       ELSE /\ backup_config' = save_data
            /\ file_form' = [file_form EXCEPT
                                !.backup = IF outcome = "ok" THEN "valid" ELSE "truncated"]
    /\ config_saved' = IF outcome = "ok" THEN save_data ELSE config_saved
    /\ save_pc' = "finish"
    /\ UNCHANGED << saved_config, dirty_, saved_, last_saved_, save_data, saveOthers >>

\* a save_config that clears dirty_ when the write is over
SaveFinish_clear ==
    /\ save_pc = "finish"
    /\ last_saved_' = save_data
    /\ saved_' = TRUE
    /\ dirty_' = FALSE
    /\ save_pc' = "idle"
    /\ UNCHANGED << fileVars, save_data, saveOthers >>

\* Config::save_config from the data lock taken again (lines 1062-1065)
SaveFinish ==
    /\ save_pc = "finish"
    /\ last_saved_' = save_data
    /\ saved_' = TRUE
    /\ save_pc' = "idle"
    /\ UNCHANGED << fileVars, dirty_, save_data, saveOthers >>

\* Config::loop: the steps of one save_config
SaveTask ==
    \/ SaveBegin
    \/ \E outcome \in WriteOutcomes : SaveWritePrimary(outcome)
    \/ \E well_formed \in BOOLEAN : SaveReparse(well_formed)
    \/ \E outcome \in WriteOutcomes : SaveWriteBackup(outcome)
    \/ SaveFinish

NextSave ==
    \/ \E payload \in GroupPayloads : ApiGroup("kitchen", payload)
    \/ SaveTask

SpecSave == Init /\ [][NextSave]_vars

\* Config::loop is called again and again
SpecSaveFair == SpecSave /\ WF_vars(SaveTask)

\* the file and the backup file both hold this configuration
FilesHold(data) ==
    /\ file_form.primary = "valid" /\ saved_config = data
    /\ file_form.backup = "valid" /\ backup_config = data

\* the backup file is written only by the step that follows a file that was
\* written and read back
BackupAfterPrimary ==
    [][(backup_config' # backup_config \/ file_form'.backup # file_form.backup) =>
          /\ save_pc = "backup"
          /\ file_form.primary = "valid"
          /\ saved_config = save_data
      ]_vars

\* C32: the backup file is written only after the file was written and read
\* back, a save in which that fails leaves the backup file as it was, and at
\* every point the file or the backup file holds a configuration that reads
C32_OneFileValid ==
    [][/\ (backup_config' # backup_config \/ file_form'.backup # file_form.backup) =>
             /\ save_pc = "backup"
             /\ file_form.primary = "valid"
             /\ saved_config = save_data
       /\ file_form'.primary = "valid" \/ file_form'.backup = "valid"
      ]_vars

\* save_config returns after the write
SaveReturns == save_pc = "finish" /\ save_pc' = "idle"

\* a save whose writes all succeeded is taken as saved
SavedWhenWritten ==
    [][SaveReturns /\ FilesHold(save_data) => last_saved_' = save_data /\ saved_']_vars

\* C33: a save in which the write of the file or of the backup file failed
\* leaves last_saved as it was and is tried again at the next call, and a save
\* is taken as done only when both files were written
C33_FailedSaveRetried ==
    [][SaveReturns =>
          IF FilesHold(save_data)
          THEN last_saved_' = save_data /\ saved_'
          ELSE last_saved_' = last_saved_ /\ ~save_not_needed'
      ]_vars

\* nothing is left to save
Quiescent == save_pc = "idle" /\ save_not_needed /\ last_saved_ = CurrentConfig

\* C34: under any interleaving of changes of the configuration and the steps
\* of the save task, a change made while the task writes is saved by a later
\* pass: once the changes stop, last_saved_ comes to equal the configuration
\* in memory and stays so
C34_NoMutationLost == <>[]Quiescent

\* the configuration was changed while the save task was writing an older one
C34_Witness == save_pc # "idle" /\ dirty_ /\ CurrentConfig # save_data

(***************************************************************************)
(* Payloads that do not parse                                              *)
(***************************************************************************)

MAX_PRESETS == 20

HexChars == << "0", "1", "2", "3", "4", "5", "6", "7", "8", "9",
               "A", "B", "C", "D", "E", "F" >>
IsHex(c) == c \in Range(HexChars)
HexValue(c) == (CHOOSE i \in DOMAIN HexChars : HexChars[i] = c) - 1

\* the loop of set_addresses and of set_preset over the pairs of characters of
\* the payload: the bytes of the pairs before the first character that is
\* not one of 0-9 and A-F, where the loop is left
RECURSIVE hex_pairs(_)
hex_pairs(text) ==
    IF Len(text) < 2 THEN << >>
    ELSE IF ~IsHex(text[1]) \/ ~IsHex(text[2]) THEN << >>
    ELSE << HexValue(text[1]) * 16 + HexValue(text[2]) >>
             \o hex_pairs(SubSeq(text, 3, Len(text)))

\* the loop is left by one of its two break statements
RECURSIVE hex_breaks(_)
hex_breaks(text) ==
    IF Len(text) < 2 THEN FALSE
    ELSE IF ~IsHex(text[1]) \/ ~IsHex(text[2]) THEN TRUE
    ELSE hex_breaks(SubSeq(text, 3, Len(text)))

\* payloads of T/group/<name> and of T/preset/<name>/levels, as text
GroupTexts == { << "0", "5", "0", "A" >>, << "0", "5", "0", "G" >>, << "z", "z" >> }
PresetTexts == { << "6", "4", "3", "2" >>, << "6", "4", "x", "y" >>, << "?", "?" >> }
PresetTopics == { "evening", "porch", RESERVED_PRESET_CUSTOM }

valid_preset_name(name, use) ==
    /\ ~(name = BUILTIN_PRESET_OFF /\ ~use)
    /\ name \notin { RESERVED_PRESET_CUSTOM, "order", RESERVED_PRESET_UNKNOWN, "" }
    /\ name \in WellFormedNames

\* the levels set_preset(name, levels) leaves in the preset
preset_levels(text) ==
    [a \in Addr |-> IF a + 1 <= Len(hex_pairs(text)) THEN hex_pairs(text)[a + 1]
                    ELSE LEVEL_NO_CHANGE]

\* Config::set_preset(name, levels)
set_preset(name, text) ==
    IF ~valid_preset_name(name, FALSE) THEN UNCHANGED << presets, dirty_ >>
    ELSE IF name \notin DOMAIN presets /\ Cardinality(DOMAIN presets) = MAX_PRESETS
    THEN UNCHANGED << presets, dirty_ >>
    ELSE /\ presets' = [n \in DOMAIN presets \cup {name} |->
                           IF n = name THEN preset_levels(text) ELSE presets[n]]
         /\ dirty_' = TRUE

\* API::receive, T/group/<name> with a payload of text
ApiGroupText(name, text) ==
    /\ CountOp
    /\ Len(text) > 0
    /\ \E order \in Orders(DOMAIN groups_by_name \cup {name}) :
          set_group_addresses(name, hex_pairs(text), order)
    /\ last_op' = Op(IF hex_breaks(text) THEN "group_unparsed" ELSE "group", {},
                     get_group_addresses_name(name), {})
    /\ UNCHANGED << presets, ordered, fileVars, netVars, switchVars, saveRest,
                    lightVars, rtcVars, now, daliVars,
                    busVars, logVars >>

\* API::receive, T/preset/<name>/levels
ApiPresetLevels(name, text) ==
    /\ CountOp
    /\ set_preset(name, text)
    /\ last_op' = Op(IF hex_breaks(text) THEN "preset_unparsed" ELSE "preset_levels",
                     {}, {}, {})
    /\ UNCHANGED << current_lights, groups_by_name, groups_by_id, ordered, fileVars,
                    netVars, switchVars, saveRest, lightVars, rtcVars, now,
                    daliVars, busVars, logVars >>

NextPayload ==
    \/ \E text \in GroupTexts : ApiGroupText("kitchen", text)
    \/ \E name \in PresetTopics, text \in PresetTexts : ApiPresetLevels(name, text)
    \/ SaveConfig
    \/ CorruptFile("invalid")
    \/ ApiReload

SpecPayload == Init /\ [][NextPayload]_vars

\* a payload whose parsing was given up, or a load of a file that is no
\* configuration
GroupParseFails == ops' = ops + 1 /\ last_op'.name = "group_unparsed"
PresetParseFails == ops' = ops + 1 /\ last_op'.name = "preset_unparsed"
FileParseFails ==
    ops' = ops + 1 /\ last_op'.name = "reload" /\ file_form.primary = "invalid"

GroupDropped == [][GroupParseFails => CurrentConfig' = CurrentConfig]_vars
PresetDropped == [][PresetParseFails => presets' = presets]_vars
FileDropped == [][FileParseFails => CurrentConfig' = CurrentConfig]_vars

\* C35: a configuration file, a preset level payload or a group address
\* payload that fails to parse leaves the configuration in memory as it was
C35_FailedParseDropped ==
    [][GroupParseFails \/ PresetParseFails \/ FileParseFails =>
        CurrentConfig' = CurrentConfig /\ presets' = presets]_vars

(***************************************************************************)
(* The rotary encoder                                                      *)
(***************************************************************************)

MaxEdges == 5
ACTIVE_CHANGE_US == 250000
ENCODER_CHANGE_US == 125000

\* the time between two edges, and the time of start()
EdgeGaps == { 40000, ENCODER_CHANGE_US, ACTIVE_CHANGE_US }
StartGaps == { 1000 }
Pins == { 0, 1 }

\* RotaryEncoder::update_mode
update_mode(signals) ==
    (IF signals[0].active_low THEN 0 ELSE 1) + (IF signals[1].active_low THEN 0 ELSE 2)

encoder_timed_out_never(matching, start_us, now_us) == FALSE

\* interrupt_handler, lines 147-149: the cycle was started too long ago
encoder_timed_out(matching, start_us, now_us) ==
    matching # 0 /\ now_us - start_us >= ENCODER_CHANGE_US

\* interrupt_handler, lines 133-142: the pin was active for so long that the
\* level it leaves must be the active one
relearns(signal, level, now_us) ==
    /\ ~signal_active([signal EXCEPT !.level = level])
    /\ signal.active_us # 0
    /\ now_us - signal.active_us >= ACTIVE_CHANGE_US

\* RotaryEncoder::interrupt_handler(pin_id) with the level of the pin and the
\* time; the records of debug_ are left out
interrupt_handler(e, pin_id, level, now_us) ==
    LET signal == e.signal_[pin_id]
        levelled == [signal EXCEPT !.level = level]
        flip == relearns(signal, level, now_us)
        flipped == IF flip THEN [levelled EXCEPT !.active_us = 0, !.active_low = ~@]
                   ELSE levelled
        is_active == signal_active(flipped)
        stamped == IF is_active THEN [flipped EXCEPT !.active_us = now_us] ELSE flipped
        cleared == IF flip THEN 0 ELSE e.count_
        matched == IF encoder_timed_out(cleared, e.start_us_, now_us) THEN 0 ELSE cleared
        e1 == [e EXCEPT !.signal_[pin_id] = stamped]
    IN IF level = signal.level THEN e
       ELSE CASE matched = 0 ->
                   IF is_active
                   THEN [e1 EXCEPT !.count_ = 1, !.first_ = pin_id, !.start_us_ = now_us]
                   ELSE [e1 EXCEPT !.count_ = 0]
              [] matched = 1 ->
                   [e1 EXCEPT !.count_ = IF is_active /\ e.first_ # pin_id THEN 2 ELSE 0]
              [] matched = 2 ->
                   [e1 EXCEPT !.count_ = IF ~is_active /\ e.first_ = pin_id THEN 3 ELSE 0]
              [] matched = 3 ->
                   IF ~is_active /\ e.first_ # pin_id
                   THEN [e1 EXCEPT !.count_ = 0,
                                   !.mode_ = update_mode(e1.signal_),
                                   !.change_ = IF e.first_ = 0 THEN @ + 1 ELSE @ - 1]
                   ELSE [e1 EXCEPT !.count_ = 0]
              [] OTHER -> [e1 EXCEPT !.count_ = 0]

\* the last four edges are the four phases of one cycle, the pin first
\* leading, the last of them comes before the timeout of the first, and the
\* other pin did not learn its active level anew in between
FullCycle(edges, first) ==
    /\ Len(edges) = 4
    /\ << edges[1].pin, edges[2].pin, edges[3].pin, edges[4].pin >>
           = << first, 1 - first, first, 1 - first >>
    /\ << edges[1].active, edges[2].active, edges[3].active, edges[4].active >>
           = << TRUE, TRUE, FALSE, FALSE >>
    /\ edges[4].time_us - edges[1].time_us < ENCODER_CHANGE_US
    /\ ~edges[2].relearned

LastFour(edges) == IF Len(edges) > 4 THEN Tail(edges) ELSE edges

otherVars == << configVars, fileVars, netVars, switchOnly, dimVars, lockVars, saveVars,
                lightVars, rtcVars, now, daliVars, busVars, opVars, logVars >>

\* RotaryEncoder::start with the levels of the pins, before and after the pull
\* direction is set
EncoderStart(levels, pulled, gap) ==
    LET now_us == enc_obs.now_us + gap
        low == \E p \in Pins : ~levels[p]
        read == IF low THEN pulled ELSE levels
        signals == [p \in Pins |->
                       [active_low |-> levels[p], level |-> read[p],
                        active_us |-> IF read[p] # levels[p] THEN now_us ELSE 0]]
    IN /\ enc_obs.now_us = 0
       /\ encoder' = [NewEncoder EXCEPT !.signal_ = signals, !.mode_ = update_mode(signals)]
       /\ enc_obs' = [enc_obs EXCEPT !.now_us = now_us]
       /\ UNCHANGED otherVars

\* an edge of a pin: the interrupt handler runs to its end
Isr(pin_id, level, gap) ==
    LET now_us == enc_obs.now_us + gap
        e == interrupt_handler(encoder, pin_id, level, now_us)
        edge == [pin |-> pin_id, active |-> signal_active(e.signal_[pin_id]),
                 time_us |-> now_us,
                 relearned |-> relearns(encoder.signal_[pin_id], level, now_us)]
        edges == IF level = encoder.signal_[pin_id].level THEN enc_obs.edges
                 ELSE LastFour(Append(enc_obs.edges, edge))
        cycle == level # encoder.signal_[pin_id].level
    IN /\ enc_obs.now_us > 0
       /\ enc_obs.n < MaxEdges
       /\ encoder' = e
       /\ enc_obs' = [enc_obs EXCEPT
              !.now_us = now_us, !.n = @ + 1, !.edges = edges,
              !.cycles = IF cycle /\ FullCycle(edges, 0) THEN @ + 1
                         ELSE IF cycle /\ FullCycle(edges, 1) THEN @ - 1 ELSE @]
       /\ UNCHANGED otherVars

\* RotaryEncoder::read: change_.exchange(0)
EncoderRead ==
    /\ encoder' = [encoder EXCEPT !.change_ = 0]
    /\ enc_obs' = [enc_obs EXCEPT !.read_total = @ + encoder.change_]
    /\ UNCHANGED otherVars

NextEncoder ==
    \/ \E levels \in [Pins -> BOOLEAN], pulled \in [Pins -> BOOLEAN], gap \in StartGaps :
          EncoderStart(levels, pulled, gap)
    \/ \E pin_id \in Pins, level \in BOOLEAN, gap \in EdgeGaps : Isr(pin_id, level, gap)
    \/ EncoderRead

InitEncoder == InitWith(S1Configs) /\ boot_rtc_ = "LOADED_OK"

SpecEncoder == InitEncoder /\ [][NextEncoder]_vars

\* the delta changes in a step of the interrupt handler
DeltaChanges == enc_obs'.n # enc_obs.n /\ encoder'.change_ # encoder.change_

\* the matcher after an edge: one phase further, or at its start, or at the
\* first phase of a cycle that starts with this edge
MatcherMoves ==
    \/ encoder'.count_ = encoder.count_ + 1 /\ encoder'.start_us_ = encoder.start_us_
    \/ encoder'.count_ = 0
    \/ encoder'.count_ = 1 /\ encoder'.start_us_ = enc_obs'.now_us

\* C36: the interrupt handler changes the delta only at the last edge of a
\* full cycle of four phases within 125 ms, by +1 when pin 0 led and by -1 when
\* pin 1 led; any other edge leaves the delta and moves or resets the matcher;
\* what read() has returned and the delta left add up to the cycles made
C36_EncoderSteps ==
    [][/\ (DeltaChanges =>
              /\ encoder.count_ = 3 /\ encoder'.count_ = 0
              /\ \E first \in Pins :
                    /\ FullCycle(enc_obs'.edges, first)
                    /\ encoder'.change_ = encoder.change_ + (IF first = 0 THEN 1 ELSE -1))
       /\ (enc_obs'.n # enc_obs.n /\ encoder'.signal_ # encoder.signal_ /\ ~DeltaChanges
              => MatcherMoves)
       /\ enc_obs'.read_total + encoder'.change_ = enc_obs'.cycles]_vars

\* a cycle led by pin 1 was made and read, and a later edge has started the
\* matcher anew
C36_Witness ==
    /\ enc_obs.read_total = -1
    /\ enc_obs.cycles = -1
    /\ encoder.change_ = 0
    /\ encoder.count_ = 1
    /\ encoder.start_us_ - enc_obs.edges[1].time_us >= ENCODER_CHANGE_US

(***************************************************************************)
(* The dimmer task                                                         *)
(***************************************************************************)

MaxReads == 3
LONG_MAX == 2147483647
MIN_ENCODER_STEPS == -127
MAX_ENCODER_STEPS == 127

Abs(x) == IF x < 0 THEN -x ELSE x

\* the quotient of a by b > 0, truncated toward zero
TruncDiv(a, b) == IF a >= 0 THEN a \div b ELSE -((-a) \div b)

\* values of T/dimmer/0/encoder_steps and T/dimmer/0/level_steps, and the
\* cycles an encoder makes between two reads
EncoderStepsValues == { 4, -4, 200 }
LevelStepsValues == { 10, 255 }
EncoderTurns == { -6, -2, 1, 5, 120 }

\* the binding of dimmer 0
DimmerBinding == make_dimmer_text("INDIVIDUAL", << "hall" >>)

run_dimmer_dropping(encoder_steps, level_steps, steps, encoder_change) ==
    LET sum == IF encoder_steps = 0 THEN 0 ELSE steps + encoder_change
        change_count == IF encoder_steps = 0 THEN 0
                        ELSE TruncDiv(sum, Abs(encoder_steps))
    IN [encoder_steps |-> 0, calls |-> change_count # 0,
        change_count |-> IF encoder_steps > 0 THEN change_count ELSE -change_count,
        level_change |-> 0]

\* Dimmers::run_dimmer with the encoder_steps and level_steps of the dimmer,
\* state_.encoder_steps and what the encoder returns: state_.encoder_steps
\* afterwards, whether dim_adjust is called, and the steps and the level
\* change passed on
run_dimmer(encoder_steps, level_steps, steps, encoder_change) ==
    LET sum == IF encoder_steps = 0 THEN 0
               ELSE Max(-LONG_MAX, steps + encoder_change)
        abs_encoder_steps == Abs(encoder_steps)
        magnitude == IF sum = 0 THEN 0 ELSE Abs(sum) \div abs_encoder_steps
        change_count == IF sum > 0 THEN magnitude ELSE -magnitude
        oriented == IF encoder_steps > 0 THEN change_count ELSE -change_count
    IN [encoder_steps |-> sum - change_count * abs_encoder_steps,
        calls |-> magnitude # 0,
        change_count |-> oriented,
        level_change |-> Max(-MAX_LEVEL, Min(MAX_LEVEL, oriented * level_steps))]

dimmerOthers == << configVars, fileVars, netVars, switchOnly, lockVars, saveRest,
                  lightVars, rtcVars, now, daliVars, busVars, opVars, logVars >>

\* API::receive, T/dimmer/0/encoder_steps: Config::set_dimmer_encoder_steps
ApiDimmerEncoderSteps(value) ==
    /\ IF value < MIN_ENCODER_STEPS \/ value > MAX_ENCODER_STEPS
          \/ dimmers.encoder_steps = value
       THEN UNCHANGED << dimmers, dirty_ >>
       ELSE /\ dimmers' = [dimmers EXCEPT !.encoder_steps = value]
            /\ dirty_' = TRUE
    /\ UNCHANGED << encVars, dimmer_state_, dim_obs, dimmerOthers >>

\* API::receive, T/dimmer/0/level_steps: Config::set_dimmer_level_steps
ApiDimmerLevelSteps(value) ==
    /\ IF value > MAX_LEVEL \/ dimmers.level_steps = value
       THEN UNCHANGED << dimmers, dirty_ >>
       ELSE /\ dimmers' = [dimmers EXCEPT !.level_steps = value]
            /\ dirty_' = TRUE
    /\ UNCHANGED << encVars, dimmer_state_, dim_obs, dimmerOthers >>

\* the interrupt handler has counted these cycles since the last read
EncoderTurned(delta) ==
    /\ encoder.change_ = 0
    /\ encoder' = [encoder EXCEPT !.change_ = @ + delta]
    /\ enc_obs' = [enc_obs EXCEPT !.cycles = @ + delta]
    /\ UNCHANGED << dimVars, dirty_, dimmerOthers >>

\* Dimmers::run_tasks: run_dimmer for dimmer 0, which reads the encoder
RunDimmer ==
    LET r == run_dimmer(dimmers.encoder_steps, dimmers.level_steps, dimmer_state_,
                        encoder.change_)
    IN /\ dim_obs.n < MaxReads
       /\ encoder' = [encoder EXCEPT !.change_ = 0]
       /\ enc_obs' = [enc_obs EXCEPT !.read_total = @ + encoder.change_]
       /\ dimmer_state_' = r.encoder_steps
       /\ dim_obs' = [n |-> dim_obs.n + 1,
                      delta_total |-> dim_obs.delta_total + encoder.change_,
                      steps_total |-> dim_obs.steps_total
                                        + (IF r.calls THEN r.change_count ELSE 0),
                      level_change |-> IF r.calls THEN r.level_change
                                       ELSE dim_obs.level_change]
       /\ IF r.calls
          THEN \E changed0 \in BOOLEAN :
                  /\ ops' = ops + 1
                  /\ pass_no' = 0
                  /\ dim_adjust(DimmerBinding, r.level_change, changed0)
          ELSE UNCHANGED << lightVars, rtcVars, opVars >>
       /\ LogLevels
       /\ UNCHANGED << configVars, fileVars, netVars, switchOnly, saveVars, now,
                       daliVars, busVars, dimmers, lockVars >>

NextDimmer ==
    \/ dim_obs.n = 0 /\ \E value \in EncoderStepsValues : ApiDimmerEncoderSteps(value)
    \/ dim_obs.n = 0 /\ \E value \in LevelStepsValues : ApiDimmerLevelSteps(value)
    \/ \E delta \in EncoderTurns : EncoderTurned(delta)
    \/ RunDimmer

SpecDimmer == InitEncoder /\ [][NextDimmer]_vars

\* the remainder that is kept is less than a step, and the level change
\* passed to dim_adjust is in the range
RemainderAndRange ==
    /\ Abs(dimmer_state_) < Abs(dimmers.encoder_steps)
    /\ dim_obs.level_change \in -MAX_LEVEL .. MAX_LEVEL

\* the steps passed on, in the direction of the encoder
EncoderSteps == IF dimmers.encoder_steps > 0 THEN dim_obs.steps_total
                ELSE -dim_obs.steps_total

\* C39 as stated: with encoder_steps not zero, the steps passed to dim_adjust,
\* counted in the direction of the encoder, add up to the sum of what was
\* read divided by |encoder_steps|, truncated
\* toward zero; the remainder kept is less than |encoder_steps|; every level
\* change passed to dim_adjust is in -254 .. 254
C39_StepsTruncated ==
    dimmers.encoder_steps # 0 =>
        /\ EncoderSteps = TruncDiv(dim_obs.delta_total, Abs(dimmers.encoder_steps))
        /\ RemainderAndRange

\* C39: with encoder_steps not zero, the steps passed to dim_adjust, counted
\* in the direction of the encoder, times |encoder_steps| plus the remainder
\* kept add up to the sum of what was read; the remainder kept is less than
\* |encoder_steps|; every level change passed to dim_adjust is in -254 .. 254
C39_StepsCarried ==
    dimmers.encoder_steps # 0 =>
        /\ EncoderSteps * Abs(dimmers.encoder_steps) + dimmer_state_ = dim_obs.delta_total
        /\ RemainderAndRange

\* a step was passed on, and a later read in the other direction has left a
\* remainder of the other sign; a level change was cut to the range
C39_Witness ==
    /\ dimmers.encoder_steps = 4
    /\ dim_obs.n = MaxReads
    /\ dim_obs.steps_total > 0
    /\ dimmer_state_ < 0
    /\ dim_obs.delta_total > 0
    /\ dim_obs.delta_total < 4

(***************************************************************************)
(* Requests made while the thread works on them                            *)
(***************************************************************************)

\* the last operation was this request, and the thread has started no pass,
\* and so taken no snapshot, since
RequestedSinceSnapshot(name) == last_op.name = name /\ pass_no = 0

\* the thread returns from completed_group_sync for the group of kitchen,
\* from completed_broadcast_power_on_level, and from
\* completed_broadcast_system_failure_level
GroupSyncAcked ==
    /\ pc = "sync_ack" /\ turn' # turn
    /\ "kitchen" \in DOMAIN groups_by_name /\ groups_by_name["kitchen"].id = SyncGroup
PowerOnLevelAcked == pc = "power_on_ack" /\ turn' # turn
SystemFailureLevelAcked == pc = "system_failure_ack" /\ turn' # turn

\* C37: a request for a group sync or for a broadcast that is made after the
\* thread took its snapshot and before the thread calls completed_* for the
\* same is still pending when the thread has called completed_*
C37_RequestNotLost ==
    [][/\ (GroupSyncAcked /\ RequestedSinceSnapshot("request_group_sync")
              => SyncGroup \in group_sync_')
       /\ (PowerOnLevelAcked /\ RequestedSinceSnapshot("request_broadcast_power_on_level")
              => broadcast_power_on_level_')
       /\ (SystemFailureLevelAcked
              /\ RequestedSinceSnapshot("request_broadcast_system_failure_level")
              => broadcast_system_failure_level_')
      ]_vars

(***************************************************************************)
(* Group frames and the lights outside the group                           *)
(***************************************************************************)

\* the thread has sent the power level frame of a group in this step
GroupFrameSent == pc' = "group_snap" /\ turn' # turn /\ step_frames' # << >>

\* C38: a power level frame for the group g leaves tx_levels_[b] as it was for
\* every address b that is no member of g (but for the level the address loop
\* has put there in the same step, which is LEVEL_NO_CHANGE)
C38_NonMembersKept ==
    [][GroupFrameSent =>
          \A b \in Addr \ state'.group_addresses[step_frames'[1].to] :
              tx_levels_'[b] \in { tx_levels_[b], LEVEL_NO_CHANGE }]_vars

(***************************************************************************)
(* The mutexes                                                             *)
(***************************************************************************)

\* Lights::publish_mutex_, Lights::lights_mutex_, the file mutex of main and
\* Config::data_mutex_; lights_mutex_ and data_mutex_ are recursive
PUBLISH == "publish"
LIGHTS == "lights"
FILE == "file"
DATA == "data"
Mutexes == { PUBLISH, LIGHTS, FILE, DATA }
Recursive == { LIGHTS, DATA }

Lock(m) == << [op |-> "lock", mutex |-> m] >>
Unlock(m) == << [op |-> "unlock", mutex |-> m] >>
ReadFile == << [op |-> "read", mutex |-> FILE] >>
WriteFile == << [op |-> "write", mutex |-> FILE] >>

\* std::lock_guard around a body
Holding(m, body) == Lock(m) \o body \o Unlock(m)

\* the getters and the setters of Config: a lock_guard on data_mutex_
ConfigCall == Holding(DATA, << >>)

get_state_locks == Holding(LIGHTS, ConfigCall)
completed_locks == Holding(LIGHTS, << >>)
report_dimmed_levels_locks == Holding(LIGHTS, ConfigCall)
publish_levels_locks == Holding(LIGHTS, ConfigCall)
publish_active_presets_locks == Holding(PUBLISH, ConfigCall)
select_preset_locks ==
    ConfigCall \o Holding(PUBLISH, Holding(LIGHTS,
        ConfigCall \o report_dimmed_levels_locks \o publish_levels_locks))
set_power_locks == ConfigCall \o Holding(LIGHTS, << >>)
dim_adjust_locks ==
    ConfigCall \o Holding(PUBLISH, Holding(LIGHTS, publish_levels_locks))
request_group_sync_locks == Holding(LIGHTS, ConfigCall)
address_config_changed_switched ==
    Holding(LIGHTS, ConfigCall \o Holding(PUBLISH, ConfigCall))
address_config_changed_locks ==
    Holding(PUBLISH, ConfigCall \o Holding(LIGHTS, ConfigCall))
lights_loop_locks ==
    report_dimmed_levels_locks \o publish_levels_locks \o publish_active_presets_locks

\* Config::load_config; ConfigFile::read_config writes the file from the
\* backup file when the file did not read
load_config_locks(rewrite) ==
    Holding(FILE, ReadFile \o (IF rewrite THEN WriteFile ELSE << >>) \o ConfigCall)

save_config_locked(write) ==
    Holding(FILE, Holding(DATA, IF write THEN WriteFile ELSE << >>))

\* Config::save_config: returns at once, or unlocks data_mutex_ for the write
save_config_locks(write) ==
    Holding(FILE, IF write THEN ConfigCall \o WriteFile \o ConfigCall ELSE ConfigCall)

\* API::receive, T/reload
reload_locks(rewrite, write) ==
    load_config_locks(rewrite) \o save_config_locks(write) \o ConfigCall
        \o address_config_changed_locks

\* the calls of each thread
ThreadCalls(t) ==
    CASE t = "broker" ->
            { select_preset_locks, ConfigCall, request_group_sync_locks,
              ConfigCall \o address_config_changed_locks, lights_loop_locks }
               \cup { reload_locks(rewrite, write) : rewrite, write \in BOOLEAN }
      [] t = "scheduler" -> { get_state_locks, completed_locks }
      [] t = "input" -> { select_preset_locks, set_power_locks }
      [] t = "dimmer" -> { dim_adjust_locks }
      [] t = "save" -> { save_config_locks(write) : write \in BOOLEAN }

lockOthers == << configVars, fileVars, netVars, switchOnly, encVars, dimVars, saveVars,
                lightVars, rtcVars, now, daliVars, busVars, opVars, logVars >>

Owner(m) == { t \in Threads : \E i \in DOMAIN held_[t] : held_[t][i] = m }

\* the thread t can lock m: no other thread holds it, and t does not hold it
\* unless it is recursive
CanLock(t, m) == Owner(m) \subseteq (IF m \in Recursive THEN {t} ELSE {})

\* the sequence without its last m
RECURSIVE WithoutLast(_, _)
WithoutLast(s, m) ==
    IF s = << >> THEN << >>
    ELSE IF s[Len(s)] = m THEN SubSeq(s, 1, Len(s) - 1)
    ELSE Append(WithoutLast(SubSeq(s, 1, Len(s) - 1), m), s[Len(s)])

\* a thread enters one of its calls
ThreadCall(t, call) ==
    /\ steps_[t] = << >>
    /\ call # << >>
    /\ steps_' = [steps_ EXCEPT ![t] = call]
    /\ UNCHANGED << held_, lockOthers >>

\* a thread locks the mutex it is at, when it can
ThreadLock(t) ==
    /\ steps_[t] # << >>
    /\ Head(steps_[t]).op = "lock"
    /\ CanLock(t, Head(steps_[t]).mutex)
    /\ held_' = [held_ EXCEPT ![t] = Append(@, Head(steps_[t]).mutex)]
    /\ steps_' = [steps_ EXCEPT ![t] = Tail(@)]
    /\ UNCHANGED lockOthers

ThreadUnlock(t) ==
    /\ steps_[t] # << >>
    /\ Head(steps_[t]).op = "unlock"
    /\ held_' = [held_ EXCEPT ![t] = WithoutLast(@, Head(steps_[t]).mutex)]
    /\ steps_' = [steps_ EXCEPT ![t] = Tail(@)]
    /\ UNCHANGED lockOthers

\* a thread reads or writes a file to the end
ThreadFile(t) ==
    /\ steps_[t] # << >>
    /\ Head(steps_[t]).op \in { "read", "write" }
    /\ steps_' = [steps_ EXCEPT ![t] = Tail(@)]
    /\ UNCHANGED << held_, lockOthers >>

NextLocks ==
    \/ \E t \in Threads : \E call \in ThreadCalls(t) : ThreadCall(t, call)
    \/ \E t \in Threads : ThreadLock(t)
    \/ \E t \in Threads : ThreadUnlock(t)
    \/ \E t \in Threads : ThreadFile(t)

SpecLocks == InitEncoder /\ [][NextLocks]_vars

\* the thread waits for a mutex
Waits(t) ==
    /\ steps_[t] # << >>
    /\ Head(steps_[t]).op = "lock"
    /\ ~CanLock(t, Head(steps_[t]).mutex)

\* the threads that hold what t waits for
WaitsFor(t) == IF Waits(t) THEN Owner(Head(steps_[t]).mutex) ELSE {}

\* every thread reached from t in n waits waits
RECURSIVE WaitsOn(_, _)
WaitsOn(t, n) ==
    /\ Waits(t)
    /\ n > 0 => \A u \in WaitsFor(t) : WaitsOn(u, n - 1)

\* one order for all: publish, lights, file, data
Rank(m) == CASE m = PUBLISH -> 1 [] m = LIGHTS -> 2 [] m = FILE -> 3 [] m = DATA -> 4

InOrder(s) == \A i, j \in DOMAIN s : i < j => Rank(s[i]) <= Rank(s[j])

\* C40: no thread waits for a mutex in a circle of waiting threads; every
\* thread holds its mutexes in the one order publish, lights, file, data; and
\* no thread that writes a file holds data_mutex_
C40_NoDeadlock ==
    /\ \A t \in Threads : ~WaitsOn(t, Cardinality(Threads))
    /\ \A t \in Threads : InOrder(held_[t])
    /\ \A t \in Threads :
          (steps_[t] # << >> /\ Head(steps_[t]).op = "write")
              => \A i \in DOMAIN held_[t] : held_[t][i] # DATA

\* the save thread writes the file with the file mutex, the broker holds the
\* mutexes of Lights and data_mutex_, and the scheduler waits for the broker
C40_Witness ==
    /\ steps_["save"] # << >> /\ Head(steps_["save"]).op = "write"
    /\ held_["save"] = << FILE >>
    /\ held_["broker"] = << PUBLISH, LIGHTS, DATA >>
    /\ Waits("scheduler")
    /\ Waits("dimmer")

====
